---- MODULE Spec2Model ----
(***************************************************************************)
(* figjar: a storage layer over a size-constrained key-value store          *)
(* (Figma's per-node plugin data).  PluginData compresses a value, lays it  *)
(* out as one record or as chunk records plus a metadata record, and keeps  *)
(* a process-wide quota ledger (GlobalQuotaManager).                        *)
(*                                                                          *)
(* Texts are modelled symbolically, with their real lengths: an             *)
(* uncompressed text is named by an entry of the table Data, a compressed   *)
(* text is a sequence of slices of the gzip+base64 image of a text.         *)
(***************************************************************************)
EXTENDS Integers, Sequences, FiniteSets, TLC

VARIABLES store, usage, res, tasks, native

vars == <<store, usage, res, tasks, native>>

Min(a, b) == IF a < b THEN a ELSE b

(***************************************************************************)
(* Program constants                                                        *)
(***************************************************************************)
MAX_TOTAL_QUOTA == 5 * 1024 * 1024
MAX_ENTRY_SIZE == 100 * 1024
CHUNK_SIZE == 85 * 1024
MAX_DATA_SIZE == 5 * 1024 * 1024
METADATA_OVERHEAD == 200
MAX_CHUNK_INDEX == 999
RESERVED_PREFIX == "__fpdu_"
META_PREFIX == "__fpdu_meta_"
CHUNK_PREFIX == "__fpdu_chunk_"

(***************************************************************************)
(* The texts the callers store.  len is the length in UTF-16 units, size    *)
(* the length in UTF-8 bytes (Blob size), clen the length of the            *)
(* gzip(level 6)+base64 image, parse the structured value JSON.parse        *)
(* yields ("none": not parseable), chars the char codes of a short text     *)
(* and sum the absolute 32-bit hash of a long one as two 16-bit limbs.      *)
(***************************************************************************)
NoChars == <<>>
NoSum == [hi |-> 0, lo |-> 0]

Data ==
  [ empty |-> [len |-> 0, size |-> 0, clen |-> 28, parse |-> "none",
               chars |-> <<>>, sum |-> NoSum],
    Aa    |-> [len |-> 2, size |-> 2, clen |-> 32, parse |-> "none",
               chars |-> <<65, 97>>, sum |-> NoSum],
    BB    |-> [len |-> 2, size |-> 2, clen |-> 32, parse |-> "none",
               chars |-> <<66, 66>>, sum |-> NoSum],
    n12   |-> [len |-> 2, size |-> 2, clen |-> 32, parse |-> "num12",
               chars |-> <<49, 50>>, sum |-> NoSum],
    obj   |-> [len |-> 7, size |-> 7, clen |-> 36, parse |-> "objA1",
               chars |-> <<123, 34, 97, 34, 58, 49, 125>>, sum |-> NoSum],
    objsp |-> [len |-> 9, size |-> 9, clen |-> 40, parse |-> "objA1",
               chars |-> <<123, 34, 97, 34, 32, 58, 32, 49, 125>>, sum |-> NoSum],
    big2  |-> [len |-> 150000, size |-> 150000, clen |-> 150432, parse |-> "none",
               chars |-> NoChars, sum |-> [hi |-> 29919, lo |-> 16338]],
    big3  |-> [len |-> 200000, size |-> 200000, clen |-> 200576, parse |-> "none",
               chars |-> NoChars, sum |-> [hi |-> 13406, lo |-> 15698]],
    big14 |-> [len |-> 1200000, size |-> 1200000, clen |-> 1203456, parse |-> "none",
               chars |-> NoChars, sum |-> [hi |-> 8121, lo |-> 40233]],
    c87   |-> [len |-> 86790, size |-> 86790, clen |-> 87040, parse |-> "none",
               chars |-> NoChars, sum |-> [hi |-> 17203, lo |-> 5511]],
    edge1 |-> [len |-> 102086, size |-> 102086, clen |-> 102380, parse |-> "none",
               chars |-> NoChars, sum |-> [hi |-> 3310, lo |-> 60122]],
    edge2 |-> [len |-> 102090, size |-> 102090, clen |-> 102384, parse |-> "none",
               chars |-> NoChars, sum |-> [hi |-> 25014, lo |-> 977]],
    atcap |-> [len |-> 5242880, size |-> 5242880, clen |-> 6840, parse |-> "none",
               chars |-> NoChars, sum |-> [hi |-> 22528, lo |-> 0]],
    over  |-> [len |-> 5242881, size |-> 5242881, clen |-> 6840, parse |-> "none",
               chars |-> NoChars, sum |-> [hi |-> 22527, lo |-> 65416]],
    huge  |-> [len |-> 5228345, size |-> 5228345, clen |-> 5242680, parse |-> "none",
               chars |-> NoChars, sum |-> [hi |-> 4711, lo |-> 815]] ]

DataIds == DOMAIN Data

\* JSON.stringify of the structured values the callers store
Stringify == [num12 |-> "n12", objA1 |-> "obj"]

StructIds == DOMAIN Stringify

(***************************************************************************)
(* Texts (JS strings)                                                       *)
(***************************************************************************)
Raw(d) == [t |-> "raw", d |-> d]
Comp(segs) == [t |-> "comp", segs |-> segs]
Junk(n) == [t |-> "junk", n |-> n]
\* a text given by its char codes
Chars(cs) == [t |-> "chars", cs |-> cs]
Meta(chunked, totalChunks, checksum, size) ==
  [t |-> "meta", chunked |-> chunked, totalChunks |-> totalChunks,
   checksum |-> checksum, size |-> size]

EmptyText == Raw("empty")

RECURSIVE SegsLen(_)
SegsLen(s) == IF s = <<>> THEN 0 ELSE (Head(s).hi - Head(s).lo) + SegsLen(Tail(s))

\* decimal digits of a natural number (String(n).length)
RECURSIVE Digits10(_)
Digits10(n) == IF n < 10 THEN 1 ELSE 1 + Digits10(n \div 10)

\* Number.prototype.toString(36) length of hi * 65536 + lo <= 2^31
Digits36(c) ==
  IF c.hi >= 32768 THEN 6
  ELSE LET v == c.hi * 65536 + c.lo IN
       IF v < 36 THEN 1
       ELSE IF v < 1296 THEN 2
       ELSE IF v < 46656 THEN 3
       ELSE IF v < 1679616 THEN 4
       ELSE IF v < 60466176 THEN 5
       ELSE 6

\* length of JSON.stringify(metadata)
MetaLen(m) ==
  IF m.chunked
  THEN 71 + Digits10(m.totalChunks) + Digits36(m.checksum) + Digits10(m.size)
  ELSE 41 + Digits36(m.checksum) + Digits10(m.size)

\* String.prototype.length
TLen(x) ==
  CASE x.t = "raw" -> Data[x.d].len
    [] x.t = "comp" -> SegsLen(x.segs)
    [] x.t = "junk" -> x.n
    [] x.t = "meta" -> MetaLen(x)
    [] x.t = "chars" -> Len(x.cs)

\* new Blob([data]).size
BlobSize(x) ==
  CASE x.t = "raw" -> Data[x.d].size
    [] OTHER -> TLen(x)

\* a + b on compressed texts: adjacent slices of one image merge
JoinSegs(a, b) ==
  IF a = <<>> THEN b
  ELSE IF b = <<>> THEN a
  ELSE LET l == a[Len(a)]
           h == Head(b)
       IN IF l.b = h.b /\ l.hi = h.lo
          THEN SubSeq(a, 1, Len(a) - 1) \o <<[b |-> l.b, lo |-> l.lo, hi |-> h.hi]>> \o Tail(b)
          ELSE a \o b

\* String.prototype.slice(from, to) on a compressed text, 0 <= from
RECURSIVE SliceSegs(_, _, _)
SliceSegs(s, from, to) ==
  IF s = <<>> \/ to <= from THEN <<>>
  ELSE LET h == Head(s)
           n == h.hi - h.lo
       IN IF from >= n THEN SliceSegs(Tail(s), from - n, to - n)
          ELSE <<[b |-> h.b, lo |-> h.lo + from, hi |-> h.lo + Min(n, to)]>>
               \o SliceSegs(Tail(s), 0, to - n)

(***************************************************************************)
(* Compressor: gzip + base64.  The image of a text is a fresh text of the   *)
(* tabulated length; decompress accepts exactly a whole image.             *)
(***************************************************************************)
\* compressed.length: for a text outside the table, a base64 text of the
\* same entropy (6 bits a character) plus the gzip header and trailer
CLen(x) ==
  IF x.t = "raw" THEN Data[x.d].clen
  ELSE 4 * (((3 * TLen(x)) \div 4 + 22) \div 3)

compress(x) == Comp(<<[b |-> x, lo |-> 0, hi |-> CLen(x)]>>)

decompress(x) ==
  IF /\ x.t = "comp"
     /\ Len(x.segs) = 1
     /\ x.segs[1].lo = 0
     /\ x.segs[1].hi = CLen(x.segs[1].b)
  THEN [err |-> "ok", text |-> x.segs[1].b]
  ELSE [err |-> "CompressionError", text |-> EmptyText]

(***************************************************************************)
(* IntegrityValidator: h := 31 * h + charCode in 32-bit signed arithmetic,  *)
(* then Math.abs(h).toString(36).  A checksum is kept as the two 16-bit     *)
(* limbs of |h| (|h| = 2^31 included).                                      *)
(***************************************************************************)
\* a hash step that shifts and forgets to subtract: h * 32 + char
HashStep_Shift(h, c) ==
  LET l == h.lo * 32 + c
  IN [hi |-> (h.hi * 32 + l \div 65536) % 65536, lo |-> l % 65536]

HashStep(h, c) ==
  LET l == h.lo * 31 + c
  IN [hi |-> (h.hi * 31 + l \div 65536) % 65536, lo |-> l % 65536]

RECURSIVE HashChars(_, _)
HashChars(h, cs) == IF cs = <<>> THEN h ELSE HashChars(HashStep(h, Head(cs)), Tail(cs))

AbsInt32(h) ==
  IF h.hi < 32768 THEN h
  ELSE [hi |-> 65535 - h.hi + (IF h.lo = 0 THEN 1 ELSE 0), lo |-> (65536 - h.lo) % 65536]

\* the checksum of an opaque text (not in the table): a value of its own
OpaqueSum(x) == [hi |-> -1, lo |-> TLen(x)]

calculateChecksum(x) ==
  IF x.t = "raw"
  THEN IF Data[x.d].len = Len(Data[x.d].chars)
       THEN AbsInt32(HashChars([hi |-> 0, lo |-> 0], Data[x.d].chars))
       ELSE Data[x.d].sum
  ELSE IF x.t = "chars" THEN AbsInt32(HashChars([hi |-> 0, lo |-> 0], x.cs))
  ELSE OpaqueSum(x)

\* a validator that accepts every text
validate_Always(x, expectedChecksum) == TRUE

validate(x, expectedChecksum) == calculateChecksum(x) = expectedChecksum

(***************************************************************************)
(* ChunkManager                                                             *)
(***************************************************************************)
\* chunk(data).chunks: piece i (from 1) is data.slice((i-1) * CHUNK_SIZE, i * CHUNK_SIZE)
chunk(x) ==
  [i \in 1..((SegsLen(x.segs) + CHUNK_SIZE - 1) \div CHUNK_SIZE) |->
     Comp(SliceSegs(x.segs, (i - 1) * CHUNK_SIZE, i * CHUNK_SIZE))]

\* a chunk key without the separator before the index
calculateChunkKey_NoSeparator(baseKey, index) == CHUNK_PREFIX \o baseKey \o ToString(index)

calculateChunkKey(baseKey, index) == CHUNK_PREFIX \o baseKey \o "_" \o ToString(index)

\* a validation that refuses a record of exactly MAX_ENTRY_SIZE
validateChunkEntry_Strict(key, x) == Len(key) + TLen(x) < MAX_ENTRY_SIZE

\* TRUE when validateChunkEntry returns, FALSE when it throws EntryTooLargeError
validateChunkEntry(key, x) == Len(key) + TLen(x) <= MAX_ENTRY_SIZE

getSafeChunkSize(baseKey) == MAX_ENTRY_SIZE - Len(calculateChunkKey(baseKey, MAX_CHUNK_INDEX))

(***************************************************************************)
(* GlobalQuotaManager: usage is nodeId -> (key -> bytes)                    *)
(***************************************************************************)
RECURSIVE SumFn(_)
SumFn(f) ==
  IF DOMAIN f = {} THEN 0
  ELSE LET k == CHOOSE k \in DOMAIN f : TRUE
       IN f[k] + SumFn([q \in DOMAIN f \ {k} |-> f[q]])

getNodeUsage(u, nodeId) == IF nodeId \in DOMAIN u THEN SumFn(u[nodeId]) ELSE 0

getCurrentUsage(u) == SumFn([n \in DOMAIN u |-> SumFn(u[n])])

\* a remaining quota that is never negative
getRemainingQuota_Clamped(u) ==
  IF getCurrentUsage(u) > MAX_TOTAL_QUOTA THEN 0 ELSE MAX_TOTAL_QUOTA - getCurrentUsage(u)

getRemainingQuota(u) == MAX_TOTAL_QUOTA - getCurrentUsage(u)

canStore(u, sizeBytes) == getCurrentUsage(u) + sizeBytes <= MAX_TOTAL_QUOTA

\* a record that adds to the entry it finds
recordUsage_Add(u, nodeId, key, bytes) ==
  LET row == IF nodeId \in DOMAIN u THEN u[nodeId] ELSE <<>>
      old == IF key \in DOMAIN row THEN row[key] ELSE 0
      new == [q \in DOMAIN row \cup {key} |-> IF q = key THEN old + bytes ELSE row[q]]
  IN [n \in DOMAIN u \cup {nodeId} |-> IF n = nodeId THEN new ELSE u[n]]

recordUsage(u, nodeId, key, bytes) ==
  LET row == IF nodeId \in DOMAIN u THEN u[nodeId] ELSE <<>>
      new == [q \in DOMAIN row \cup {key} |-> IF q = key THEN bytes ELSE row[q]]
  IN [n \in DOMAIN u \cup {nodeId} |-> IF n = nodeId THEN new ELSE u[n]]

\* a removal that drops every entry of the owner
removeUsage_WholeRow(u, nodeId, key) == [n \in DOMAIN u \ {nodeId} |-> u[n]]

removeUsage(u, nodeId, key) ==
  IF nodeId \notin DOMAIN u THEN u
  ELSE LET new == [q \in DOMAIN u[nodeId] \ {key} |-> u[nodeId][q]]
       IN IF DOMAIN new = {}
          THEN [n \in DOMAIN u \ {nodeId} |-> u[n]]
          ELSE [n \in DOMAIN u |-> IF n = nodeId THEN new ELSE u[n]]

getKeyUsage(u, nodeId, key) ==
  IF nodeId \in DOMAIN u /\ key \in DOMAIN u[nodeId] THEN u[nodeId][key] ELSE 0

\* a cleanup that clears the whole ledger
cleanupNodeUsage_All(u, nodeId) == <<>>

\* a cleanup that leaves the row of the owner in place
cleanupNodeUsage_Keep(u, nodeId) == u

cleanupNodeUsage(u, nodeId) == [n \in DOMAIN u \ {nodeId} |-> u[n]]

\* getUsageReport(), without the utilization percentage
getUsageReport(u) ==
  [totalUsed |-> getCurrentUsage(u),
   totalAvailable |-> MAX_TOTAL_QUOTA,
   remainingBytes |-> getRemainingQuota(u),
   nodeBreakdown |-> [n \in DOMAIN u |-> SumFn(u[n])],
   keyBreakdown |-> u]

\* getQuotaStats(), without the utilization percentage
getQuotaStats(u) ==
  [used |-> getCurrentUsage(u),
   available |-> MAX_TOTAL_QUOTA,
   remaining |-> getRemainingQuota(u)]

\* TRUE when validateEntrySize returns, FALSE when it throws EntryTooLargeError
validateEntrySize(key, x) == Len(key) + TLen(x) <= MAX_ENTRY_SIZE

(***************************************************************************)
(* BaseNode: the backing store of one node, physical key -> text; a record  *)
(* set to the empty text is removed, an absent record reads as ''.          *)
(***************************************************************************)
NodeGet(st, k) == IF k \in DOMAIN st THEN st[k] ELSE EmptyText

NodeSet(st, k, x) ==
  IF TLen(x) = 0 THEN [q \in DOMAIN st \ {k} |-> st[q]]
  ELSE [q \in DOMAIN st \cup {k} |-> IF q = k THEN x ELSE st[q]]

\* the host refuses a record over its per-record limit
NodeAccepts(k, x) == Len(k) + TLen(x) <= MAX_ENTRY_SIZE

StartsWith(s, p) == Len(s) >= Len(p) /\ SubSeq(s, 1, Len(p)) = p

(***************************************************************************)
(* Values: a text, or structured data (named by its JSON text)              *)
(***************************************************************************)
Text(x) == [t |-> "text", s |-> x]
Struct(j) == [t |-> "struct", j |-> j]
NoValue == [t |-> "none"]

\* JSON.stringify returns: it throws a TypeError on a structure that
\* contains itself
CanStringify(v) == v.t = "text" \/ v.j \in StructIds

\* typeof value === 'string' ? value : JSON.stringify(value)
Serialize(v) == IF v.t = "text" THEN v.s ELSE Raw(Stringify[v.j])

\* JSON.parse(decompressed), with the fallback to the text itself
JSONParseOrText(x) ==
  IF x.t = "raw" /\ Data[x.d].parse # "none" THEN Struct(Data[x.d].parse) ELSE Text(x)

Undefined == [hi |-> -2, lo |-> -2]

\* JSON.parse(metadataStr) and the fields read from it
ParseMeta(x) ==
  CASE x.t = "meta" ->
         [ok |-> TRUE, chunked |-> x.chunked, totalChunks |-> x.totalChunks,
          checksum |-> x.checksum]
    [] x.t = "raw" /\ Data[x.d].parse # "none" ->
         [ok |-> TRUE, chunked |-> FALSE, totalChunks |-> 0, checksum |-> Undefined]
    [] OTHER ->
         [ok |-> FALSE, chunked |-> FALSE, totalChunks |-> 0, checksum |-> Undefined]

metaKey(key) == META_PREFIX \o key

\* a key check that refuses the empty key only
ValidKey_NonEmpty(key) == key # ""

ValidKey(key) == key # "" /\ ~StartsWith(key, RESERVED_PREFIX)

(***************************************************************************)
(* PluginData, the directly-returning forms.  An operation maps the node's  *)
(* records st and the ledger us to [err, st, us].                           *)
(***************************************************************************)
Outcome(err, st, us) == [err |-> err, st |-> st, us |-> us]

\* a single-record store that leaves the ledger as it found it
storeSingle_Unrecorded(st, us, nodeId, key, compressed, originalData) ==
  LET metadata == Meta(FALSE, 0, calculateChecksum(originalData), BlobSize(originalData))
      metadataKey == metaKey(key)
      st1 == NodeSet(st, key, compressed)
      st2 == NodeSet(st1, metadataKey, metadata)
  IN IF ~validateEntrySize(key, compressed) THEN Outcome("EntryTooLargeError", st, us)
     ELSE IF ~validateEntrySize(metadataKey, metadata) THEN Outcome("EntryTooLargeError", st, us)
     ELSE IF ~NodeAccepts(key, compressed) THEN Outcome("Error", st, us)
     ELSE IF ~NodeAccepts(metadataKey, metadata) THEN Outcome("Error", st1, us)
     ELSE Outcome("ok", st2, us)

storeSingle(st, us, nodeId, key, compressed, originalData) ==
  LET metadata == Meta(FALSE, 0, calculateChecksum(originalData), BlobSize(originalData))
      metadataKey == metaKey(key)
      st1 == NodeSet(st, key, compressed)
      st2 == NodeSet(st1, metadataKey, metadata)
      totalUsage == TLen(compressed) + Len(metadataKey) + TLen(metadata)
  IN IF ~validateEntrySize(key, compressed) THEN Outcome("EntryTooLargeError", st, us)
     ELSE IF ~validateEntrySize(metadataKey, metadata) THEN Outcome("EntryTooLargeError", st, us)
     ELSE IF ~NodeAccepts(key, compressed) THEN Outcome("Error", st, us)
     ELSE IF ~NodeAccepts(metadataKey, metadata) THEN Outcome("Error", st1, us)
     ELSE Outcome("ok", st2, recordUsage(us, nodeId, key, totalUsage))

\* the sum of f[lo..hi]
RECURSIVE SumRange(_, _, _)
SumRange(f, lo, hi) ==
  IF lo > hi THEN 0
  ELSE IF lo = hi THEN f[lo]
  ELSE LET mid == (lo + hi) \div 2
       IN SumRange(f, lo, mid) + SumRange(f, mid + 1, hi)

\* the records key[i] -> val[i] for i in the set idx of lo..hi
RECURSIVE Records(_, _, _, _, _)
Records(key, val, idx, lo, hi) ==
  IF lo > hi THEN <<>>
  ELSE IF lo = hi THEN (IF lo \in idx THEN key[lo] :> val[lo] ELSE <<>>)
  ELSE LET mid == (lo + hi) \div 2
       IN Records(key, val, idx, lo, mid) @@ Records(key, val, idx, mid + 1, hi)

\* chunks.chunks.forEach: validate, put, add to totalUsage; the first throw
\* ends the loop, the chunks before it stay written
WriteChunks(st, key, chunks) ==
  LET N == Len(chunks)
      chunkKey == [i \in 1..N |-> calculateChunkKey(key, i - 1)]
      bad == {i \in 1..N : ~validateChunkEntry(chunkKey[i], chunks[i])
                             \/ ~NodeAccepts(chunkKey[i], chunks[i])}
      first == IF bad = {} THEN N + 1 ELSE CHOOSE i \in bad : \A j \in bad : i <= j
      cost == [i \in 1..N |-> Len(chunkKey[i]) + TLen(chunks[i])]
  IN [err |-> IF bad = {} THEN "ok"
              ELSE IF ~validateChunkEntry(chunkKey[first], chunks[first])
              THEN "EntryTooLargeError"
              ELSE "Error",
      st |-> Records(chunkKey, chunks, 1..(first - 1), 1, N) @@ st,
      total |-> SumRange(cost, 1, first - 1)]

\* a chunked store that records its ledger entry before its writes
storeChunked_RecordFirst(st, us, nodeId, key, compressed, original) ==
  LET chunks == chunk(compressed)
      w == WriteChunks(st, key, chunks)
      metadata == Meta(TRUE, Len(chunks), calculateChecksum(original), BlobSize(original))
      metadataKey == metaKey(key)
      cost == [i \in 1..Len(chunks) |-> Len(calculateChunkKey(key, i - 1)) + TLen(chunks[i])]
      totalUsage == SumRange(cost, 1, Len(chunks)) + Len(metadataKey) + TLen(metadata)
      us2 == recordUsage(us, nodeId, key, totalUsage)
  IN IF w.err # "ok" THEN Outcome(w.err, w.st, us2)
     ELSE IF ~validateEntrySize(metadataKey, metadata) THEN Outcome("EntryTooLargeError", w.st, us2)
     ELSE IF ~NodeAccepts(metadataKey, metadata) THEN Outcome("Error", w.st, us2)
     ELSE Outcome("ok", NodeSet(w.st, metadataKey, metadata), us2)

storeChunked(st, us, nodeId, key, compressed, original) ==
  LET chunks == chunk(compressed)
      w == WriteChunks(st, key, chunks)
      metadata == Meta(TRUE, Len(chunks), calculateChecksum(original), BlobSize(original))
      metadataKey == metaKey(key)
      totalUsage == w.total + Len(metadataKey) + TLen(metadata)
  IN IF w.err # "ok" THEN Outcome(w.err, w.st, us)
     ELSE IF ~validateEntrySize(metadataKey, metadata) THEN Outcome("EntryTooLargeError", w.st, us)
     ELSE IF ~NodeAccepts(metadataKey, metadata) THEN Outcome("Error", w.st, us)
     ELSE Outcome("ok", NodeSet(w.st, metadataKey, metadata),
                  recordUsage(us, nodeId, key, totalUsage))

\* the catch of setPluginData: QuotaExceededError and EntryTooLargeError pass,
\* anything else leaves as CompressionError
CatchStore(r) ==
  IF r.err \in {"ok", "QuotaExceededError", "EntryTooLargeError"} THEN r
  ELSE Outcome("CompressionError", r.st, r.us)

\* a store that takes the old entry of the key out of the ledger before its
\* quota check
StoreCompressed_RemoveFirst(st, us, nodeId, key, compressed, data) ==
  LET estimatedSize == TLen(compressed) + METADATA_OVERHEAD
      oldUsage == getKeyUsage(us, nodeId, key)
      us1 == IF oldUsage > 0 THEN removeUsage(us, nodeId, key) ELSE us
      maxChunkSize == getSafeChunkSize(key)
  IN IF ~canStore(us, estimatedSize) THEN Outcome("QuotaExceededError", st, us1)
     ELSE IF TLen(compressed) > maxChunkSize
          THEN CatchStore(storeChunked(st, us1, nodeId, key, compressed, data))
          ELSE CatchStore(storeSingle(st, us1, nodeId, key, compressed, data))

\* a store that also chunks a payload of exactly the safe chunk size
StoreCompressed_ChunkAtLimit(st, us, nodeId, key, compressed, data) ==
  LET estimatedSize == TLen(compressed) + METADATA_OVERHEAD
      oldUsage == getKeyUsage(us, nodeId, key)
      us1 == IF oldUsage > 0 THEN removeUsage(us, nodeId, key) ELSE us
      maxChunkSize == getSafeChunkSize(key)
  IN IF ~canStore(us, estimatedSize) THEN Outcome("QuotaExceededError", st, us)
     ELSE IF TLen(compressed) >= maxChunkSize
          THEN CatchStore(storeChunked(st, us1, nodeId, key, compressed, data))
          ELSE CatchStore(storeSingle(st, us1, nodeId, key, compressed, data))

\* setPluginData from the quota check on (the try block after compress)
StoreCompressed(st, us, nodeId, key, compressed, data) ==
  LET estimatedSize == TLen(compressed) + METADATA_OVERHEAD
      oldUsage == getKeyUsage(us, nodeId, key)
      us1 == IF oldUsage > 0 THEN removeUsage(us, nodeId, key) ELSE us
      maxChunkSize == getSafeChunkSize(key)
  IN IF ~canStore(us, estimatedSize) THEN Outcome("QuotaExceededError", st, us)
     ELSE IF TLen(compressed) > maxChunkSize
          THEN CatchStore(storeChunked(st, us1, nodeId, key, compressed, data))
          ELSE CatchStore(storeSingle(st, us1, nodeId, key, compressed, data))

\* a store whose value cap refuses the cap itself
setPluginData_CapInclusive(st, us, nodeId, key, value) ==
  IF ~ValidKey(key) THEN Outcome("InvalidKeyError", st, us)
  ELSE IF ~CanStringify(value) THEN Outcome("TypeError", st, us)
  ELSE LET data == Serialize(value)
           size == BlobSize(data)
       IN IF size >= MAX_DATA_SIZE THEN Outcome("DataTooLargeError", st, us)
          ELSE StoreCompressed(st, us, nodeId, key, compress(data), data)

setPluginData(st, us, nodeId, key, value) ==
  IF ~ValidKey(key) THEN Outcome("InvalidKeyError", st, us)
  ELSE IF ~CanStringify(value) THEN Outcome("TypeError", st, us)
  ELSE LET data == Serialize(value)
           size == BlobSize(data)
       IN IF size > MAX_DATA_SIZE THEN Outcome("DataTooLargeError", st, us)
          ELSE StoreCompressed(st, us, nodeId, key, compress(data), data)

\* chunks.join('')
JoinText(a, b) ==
  IF a.t = "comp" /\ b.t = "comp" THEN Comp(JoinSegs(a.segs, b.segs))
  ELSE Junk(TLen(a) + TLen(b))

\* the join of f[lo..hi]
RECURSIVE JoinRange(_, _, _)
JoinRange(f, lo, hi) ==
  IF lo > hi THEN Comp(<<>>)
  ELSE IF lo = hi THEN f[lo]
  ELSE LET mid == (lo + hi) \div 2
       IN JoinText(JoinRange(f, lo, mid), JoinRange(f, mid + 1, hi))

\* the read loop of retrieveChunked: a missing or empty chunk throws
ReadChunks(st, key, n) ==
  LET c == [i \in 0..(n - 1) |-> NodeGet(st, calculateChunkKey(key, i))]
  IN IF \E i \in 0..(n - 1) : TLen(c[i]) = 0
     THEN [err |-> "DataCorruptedError", text |-> EmptyText]
     ELSE [err |-> "ok", text |-> JoinRange(c, 0, n - 1)]

Returned(err, val) == [err |-> err, val |-> val]

\* the text is decompressed, checked against the checksum and decoded
Decode(compressed, checksum) ==
  LET d == decompress(compressed)
  IN IF d.err # "ok" THEN Returned(d.err, NoValue)
     ELSE IF ~validate(d.text, checksum) THEN Returned("DataCorruptedError", NoValue)
     ELSE Returned("ok", JSONParseOrText(d.text))

retrieveChunked(st, key, metadata) ==
  LET r == ReadChunks(st, key, metadata.totalChunks)
  IN IF r.err # "ok" THEN Returned(r.err, NoValue)
     ELSE Decode(r.text, metadata.checksum)

\* the managed path of getPluginData, before its catch
getManaged(st, key, metadataStr) ==
  LET metadata == ParseMeta(metadataStr)
  IN IF ~metadata.ok THEN Returned("SyntaxError", NoValue)
     ELSE IF metadata.chunked THEN retrieveChunked(st, key, metadata)
     ELSE Decode(NodeGet(st, key), metadata.checksum)

\* a retrieve without the outer catch
getPluginData_Uncaught(st, key) ==
  LET metadataStr == NodeGet(st, metaKey(key))
  IN IF TLen(metadataStr) = 0 THEN Returned("ok", Text(NodeGet(st, key)))
     ELSE getManaged(st, key, metadataStr)

\* a retrieve that decodes the raw value of an unmanaged key
getPluginData_DecodeRaw(st, key) ==
  LET metadataStr == NodeGet(st, metaKey(key))
      r == getManaged(st, key, metadataStr)
  IN IF TLen(metadataStr) = 0 THEN Returned("ok", JSONParseOrText(NodeGet(st, key)))
     ELSE IF r.err = "ok" THEN r
     ELSE Returned("DataCorruptedError", NoValue)

getPluginData(st, key) ==
  LET metadataStr == NodeGet(st, metaKey(key))
      r == getManaged(st, key, metadataStr)
  IN IF TLen(metadataStr) = 0 THEN Returned("ok", Text(NodeGet(st, key)))
     ELSE IF r.err = "ok" THEN r
     ELSE Returned("DataCorruptedError", NoValue)

\* the indexes of the chunk records present for a key
ChunkIndexes(st, key) == {i \in 0..MAX_CHUNK_INDEX : calculateChunkKey(key, i) \in DOMAIN st}

getPluginDataKeys(st) == {k \in DOMAIN st : ~StartsWith(k, RESERVED_PREFIX)}

\* an erase loop that starts at index 1
EraseChunks_SkipFirst(st, key, n) ==
  LET gone == {calculateChunkKey(key, i) : i \in 1..(n - 1)}
  IN [q \in DOMAIN st \ gone |-> st[q]]

\* the erase loop over the chunk keys 0..n-1
EraseChunks(st, key, n) ==
  LET gone == {calculateChunkKey(key, i) : i \in 0..(n - 1)}
  IN [q \in DOMAIN st \ gone |-> st[q]]

\* the metadata block of deletePluginData: nothing past a failed JSON.parse runs
EraseManaged(st, key) ==
  LET metadataStr == NodeGet(st, metaKey(key))
      metadata == ParseMeta(metadataStr)
      st1 == IF metadata.chunked THEN EraseChunks(st, key, metadata.totalChunks) ELSE st
  IN IF TLen(metadataStr) = 0 THEN st
     ELSE IF ~metadata.ok THEN st
     ELSE NodeSet(st1, metaKey(key), EmptyText)

\* a delete that leaves the ledger alone
deletePluginData_KeepUsage(st, us, nodeId, key) ==
  Outcome("ok", NodeSet(EraseManaged(st, key), key, EmptyText), us)

deletePluginData(st, us, nodeId, key) ==
  Outcome("ok", NodeSet(EraseManaged(st, key), key, EmptyText), removeUsage(us, nodeId, key))

(***************************************************************************)
(* PluginData, the suspending forms.  A call runs to its first await, and   *)
(* each later step runs from one await to the next.  Promise executors and  *)
(* async callbacks without an await run at once, so every record put of a   *)
(* call happens before its await Promise.all.                               *)
(***************************************************************************)
\* the two executors of storeSingleAsync: each put is tried on its own
storeSingleAsyncPuts(st, key, compressed, originalData) ==
  LET metadata == Meta(FALSE, 0, calculateChecksum(originalData), BlobSize(originalData))
      metadataKey == metaKey(key)
      st1 == IF NodeAccepts(key, compressed) THEN NodeSet(st, key, compressed) ELSE st
      st2 == IF NodeAccepts(metadataKey, metadata) THEN NodeSet(st1, metadataKey, metadata) ELSE st1
  IN IF ~validateEntrySize(key, compressed) THEN [err |-> "EntryTooLargeError", st |-> st]
     ELSE IF ~validateEntrySize(metadataKey, metadata) THEN [err |-> "EntryTooLargeError", st |-> st]
     ELSE IF NodeAccepts(key, compressed) /\ NodeAccepts(metadataKey, metadata)
          THEN [err |-> "ok", st |-> st2]
          ELSE [err |-> "Error", st |-> st2]

\* storeSingleAsync after await Promise.all
storeSingleAsyncRecord(us, nodeId, key, compressed, originalData) ==
  LET metadata == Meta(FALSE, 0, calculateChecksum(originalData), BlobSize(originalData))
  IN recordUsage(us, nodeId, key, TLen(compressed) + Len(metaKey(key)) + TLen(metadata))

\* chunks.chunks.map(async ...): every chunk is validated and put on its own;
\* Promise.all rejects with the first rejection
WriteChunksAsync(st, key, chunks) ==
  LET N == Len(chunks)
      chunkKey == [i \in 1..N |-> calculateChunkKey(key, i - 1)]
      invalid == {i \in 1..N : ~validateChunkEntry(chunkKey[i], chunks[i])}
      refused == {i \in 1..N : ~NodeAccepts(chunkKey[i], chunks[i])}
      bad == invalid \cup refused
      first == CHOOSE i \in bad : \A j \in bad : i <= j
  IN [err |-> IF bad = {} THEN "ok"
              ELSE IF first \in invalid THEN "EntryTooLargeError"
              ELSE "Error",
      st |-> Records(chunkKey, chunks, (1..N) \ bad, 1, N) @@ st]

\* storeChunkedAsync after await Promise.all
storeChunkedAsyncFinish(st, us, nodeId, key, compressed, original) ==
  LET chunks == chunk(compressed)
      cost == [i \in 1..Len(chunks) |-> Len(calculateChunkKey(key, i - 1)) + TLen(chunks[i])]
      metadata == Meta(TRUE, Len(chunks), calculateChecksum(original), BlobSize(original))
      metadataKey == metaKey(key)
      totalUsage == SumRange(cost, 1, Len(chunks)) + Len(metadataKey) + TLen(metadata)
  IN IF ~validateEntrySize(metadataKey, metadata) THEN Outcome("EntryTooLargeError", st, us)
     ELSE IF ~NodeAccepts(metadataKey, metadata) THEN Outcome("Error", st, us)
     ELSE Outcome("ok", NodeSet(st, metadataKey, metadata),
                  recordUsage(us, nodeId, key, totalUsage))

\* setPluginDataAsync from the end of await compressAsync to the await
\* Promise.all of the layout chosen: [err, st, us, pc]
StoreAsyncAfterCompress(st, us, nodeId, key, compressed, data) ==
  LET estimatedSize == TLen(compressed) + METADATA_OVERHEAD
      oldUsage == getKeyUsage(us, nodeId, key)
      us1 == IF oldUsage > 0 THEN removeUsage(us, nodeId, key) ELSE us
      chunked == TLen(compressed) > getSafeChunkSize(key)
      w == IF chunked THEN WriteChunksAsync(st, key, chunk(compressed))
           ELSE storeSingleAsyncPuts(st, key, compressed, data)
  IN IF ~canStore(us, estimatedSize)
     THEN [err |-> "QuotaExceededError", st |-> st, us |-> us, pc |-> "idle"]
     ELSE IF w.err # "ok"
     THEN [err |-> IF w.err = "EntryTooLargeError" THEN w.err ELSE "CompressionError",
           st |-> w.st, us |-> us1, pc |-> "idle"]
     ELSE [err |-> "ok", st |-> w.st, us |-> us1,
           pc |-> IF chunked THEN "chunksJoin" ELSE "singleJoin"]

\* setPluginDataAsync after await Promise.all
StoreAsyncAfterJoin(st, us, pc, nodeId, key, compressed, data) ==
  IF pc = "singleJoin"
  THEN Outcome("ok", st, storeSingleAsyncRecord(us, nodeId, key, compressed, data))
  ELSE CatchStore(storeChunkedAsyncFinish(st, us, nodeId, key, compressed, data))

\* deletePluginDataAsync up to await Promise.all(deletePromises), which is
\* reached only for chunked metadata: [st, pc]
DeleteAsyncCallEffect(st, key) ==
  LET metadataStr == NodeGet(st, metaKey(key))
      metadata == ParseMeta(metadataStr)
  IN IF TLen(metadataStr) # 0 /\ metadata.ok /\ metadata.chunked
     THEN [st |-> EraseChunks(st, key, metadata.totalChunks), pc |-> "deleteJoin"]
     ELSE [st |-> NodeSet(EraseManaged(st, key), key, EmptyText), pc |-> "idle"]

\* a delete that leaves the metadata record behind
DeleteAsyncAfterJoin_KeepMeta(st, key) == NodeSet(st, key, EmptyText)

\* deletePluginDataAsync after await Promise.all(deletePromises)
DeleteAsyncAfterJoin(st, key) ==
  NodeSet(NodeSet(st, metaKey(key), EmptyText), key, EmptyText)

\* setPluginDataAsync run with nothing between its steps
setPluginDataAsync(st, us, nodeId, key, value) ==
  LET data == Serialize(value)
      r == StoreAsyncAfterCompress(st, us, nodeId, key, compress(data), data)
  IN IF ~ValidKey(key) THEN Outcome("InvalidKeyError", st, us)
     ELSE IF ~CanStringify(value) THEN Outcome("TypeError", st, us)
     ELSE IF BlobSize(data) > MAX_DATA_SIZE THEN Outcome("DataTooLargeError", st, us)
     ELSE IF r.pc = "idle" THEN Outcome(r.err, r.st, r.us)
     ELSE StoreAsyncAfterJoin(r.st, r.us, r.pc, nodeId, key, compress(data), data)

\* deletePluginDataAsync run with nothing between its steps
deletePluginDataAsync(st, us, nodeId, key) ==
  LET r == DeleteAsyncCallEffect(st, key)
  IN Outcome("ok",
             IF r.pc = "idle" THEN r.st ELSE DeleteAsyncAfterJoin(r.st, key),
             removeUsage(us, nodeId, key))

\* what getPluginDataAsync has read when it reaches await decompressAsync
Read(text, checksum) == [t |-> "read", text |-> text, checksum |-> checksum]

\* getPluginDataAsync up to await decompressAsync: [pc, err, val, read]; it
\* ends at once (pc "idle") on the passthrough path, on unparsable metadata
\* and on a missing chunk
getPluginDataAsyncRead(st, key) ==
  LET metadataStr == NodeGet(st, metaKey(key))
      metadata == ParseMeta(metadataStr)
      r == ReadChunks(st, key, metadata.totalChunks)
      ended(err, val) == [pc |-> "idle", err |-> err, val |-> val, read |-> Read(EmptyText, Undefined)]
      waits(text) == [pc |-> "decompress", err |-> "ok", val |-> NoValue,
                      read |-> Read(text, metadata.checksum)]
  IN IF TLen(metadataStr) = 0 THEN ended("ok", Text(NodeGet(st, key)))
     ELSE IF ~metadata.ok THEN ended("DataCorruptedError", NoValue)
     ELSE IF metadata.chunked
          THEN IF r.err # "ok" THEN ended("DataCorruptedError", NoValue)
               ELSE waits(r.text)
          ELSE waits(NodeGet(st, key))

\* getPluginDataAsync after await decompressAsync, with its catch
getPluginDataAsyncDecode(read) ==
  LET r == Decode(read.text, read.checksum)
  IN IF r.err = "ok" THEN r ELSE Returned("DataCorruptedError", NoValue)

\* getPluginDataAsync run with nothing between its steps
getPluginDataAsync(st, key) ==
  LET r == getPluginDataAsyncRead(st, key)
  IN IF r.pc = "idle" THEN Returned(r.err, r.val) ELSE getPluginDataAsyncDecode(r.read)

(***************************************************************************)
(* The state machine.  store[n] holds the records of node n, usage is the   *)
(* ledger, res the last operation and how it ended.                         *)
(***************************************************************************)
Nodes == {"n1", "n2"}
Keys == {"a", "a_1"}
BadKeys == {"", "__fpdu_x"}

SmallValues == {Text(Raw("Aa")), Text(Raw("n12")), Text(Raw("empty")), Struct("objA1")}
ChunkedValues == {Text(Raw("big2")), Text(Raw("big3"))}
LimitValues == {Text(Raw("huge")), Text(Raw("over")), Text(Raw("atcap"))}
Values == SmallValues \cup ChunkedValues \cup LimitValues

\* what the callers pass in the default specification: two owners, values
\* up to the value cap and the quota
StoreInputs ==
  ({"n1"} \X {"a"} \X ({Text(Raw("Aa"))} \cup LimitValues))
    \cup ({"n1"} \X BadKeys \X {Text(Raw("Aa")), Text(Raw("over"))})
    \cup ({"n2"} \X {"a"} \X {Text(Raw("Aa")), Text(Raw("huge")), Text(Raw("over"))})

KeyInputs == Nodes \X {"a"}

\* what the callers pass in the layout specification: one owner, values of
\* both layouts
LayoutStoreInputs ==
  ({"n1"} \X {"a"} \X
     {Text(Raw("empty")), Text(Raw("n12")), Struct("objA1"), Text(Raw("big2")), Text(Raw("big3"))})
    \cup ({"n1"} \X {"a_1"} \X {Text(Raw("empty")), Text(Raw("big2")), Text(Raw("big3"))})

LayoutKeyInputs == {"n1"} \X Keys

\* the last operation: what was called and how it ended (err, ret); for a
\* delete also the metadata record of its key before it (was), and whether
\* it repeats the delete before it (again)
Result(op, nodeId, key, val, err, ret) ==
  [op |-> op, node |-> nodeId, key |-> key, val |-> val, err |-> err, ret |-> ret,
   was |-> EmptyText, again |-> FALSE]

Deleted(op, nodeId, key, was) ==
  [op |-> op, node |-> nodeId, key |-> key, val |-> NoValue, err |-> "ok", ret |-> NoValue,
   was |-> was,
   again |-> res.op \in {"delete", "deleteAsync"} /\ res.node = nodeId /\ res.key = key]

TaskIds == {"t1", "t2"}

\* the one pending call of the specifications without overlapping calls
OneTask == {"t1"}

\* a call in flight: where it waits and its arguments; was is the metadata
\* record a delete found when it was called
Task(pc, op, nodeId, key, val, was) ==
  [pc |-> pc, op |-> op, node |-> nodeId, key |-> key, val |-> val, was |-> was]

Idle == Task("idle", "", "", "", NoValue, EmptyText)

NoTasks == [t \in TaskIds |-> Idle]

Init ==
  /\ store = [n \in Nodes |-> <<>>]
  /\ usage = <<>>
  /\ res = [op |-> "init", node |-> "", key |-> "", val |-> NoValue, err |-> "ok",
            ret |-> NoValue, was |-> EmptyText, again |-> FALSE]
  /\ tasks = NoTasks
  /\ native = 0

Store(n, k, v) ==
  LET r == setPluginData(store[n], usage, n, k, v)
  IN /\ store' = [store EXCEPT ![n] = r.st]
     /\ usage' = r.us
     /\ res' = Result("store", n, k, v, r.err, NoValue)
     /\ UNCHANGED <<tasks, native>>

Retrieve(n, k) ==
  LET r == getPluginData(store[n], k)
  IN /\ res' = Result("retrieve", n, k, NoValue, r.err, r.val)
     /\ UNCHANGED <<store, usage, tasks, native>>

Delete(n, k) ==
  LET r == deletePluginData(store[n], usage, n, k)
  IN /\ store' = [store EXCEPT ![n] = r.st]
     /\ usage' = r.us
     /\ res' = Deleted("delete", n, k, NodeGet(store[n], metaKey(k)))
     /\ UNCHANGED <<tasks, native>>

\* setPluginDataAsync is called: it runs to await compressAsync, or throws
StoreAsyncCall(t, n, k, v) ==
  LET err == IF ~ValidKey(k) THEN "InvalidKeyError"
             ELSE IF ~CanStringify(v) THEN "TypeError"
             ELSE IF BlobSize(Serialize(v)) > MAX_DATA_SIZE THEN "DataTooLargeError"
             ELSE "ok"
  IN /\ tasks[t].pc = "idle"
     /\ tasks' = [tasks EXCEPT ![t] =
                    IF err = "ok" THEN Task("compress", "storeAsync", n, k, v, EmptyText) ELSE Idle]
     /\ res' = IF err = "ok" THEN Result("await", n, k, v, "ok", NoValue)
               ELSE Result("storeAsync", n, k, v, err, NoValue)
     /\ UNCHANGED <<store, usage, native>>

\* compressAsync has resolved: the quota check, the layout and the record puts
StoreAsyncResume(t) ==
  LET c == tasks[t]
      data == Serialize(c.val)
      r == StoreAsyncAfterCompress(store[c.node], usage, c.node, c.key, compress(data), data)
  IN /\ c.pc = "compress"
     /\ store' = [store EXCEPT ![c.node] = r.st]
     /\ usage' = r.us
     /\ tasks' = [tasks EXCEPT ![t] = IF r.pc = "idle" THEN Idle ELSE [c EXCEPT !.pc = r.pc]]
     /\ res' = IF r.pc = "idle" THEN Result("storeAsync", c.node, c.key, c.val, r.err, NoValue)
               ELSE Result("await", c.node, c.key, c.val, "ok", NoValue)
     /\ UNCHANGED native

\* Promise.all has resolved: the metadata put (chunked) and the ledger entry
StoreAsyncFinish(t) ==
  LET c == tasks[t]
      data == Serialize(c.val)
      r == StoreAsyncAfterJoin(store[c.node], usage, c.pc, c.node, c.key, compress(data), data)
  IN /\ c.pc \in {"singleJoin", "chunksJoin"}
     /\ store' = [store EXCEPT ![c.node] = r.st]
     /\ usage' = r.us
     /\ tasks' = [tasks EXCEPT ![t] = Idle]
     /\ res' = Result("storeAsync", c.node, c.key, c.val, r.err, NoValue)
     /\ UNCHANGED native

\* deletePluginDataAsync is called: it runs to await Promise.all, or to its end
DeleteAsyncCall(t, n, k) ==
  LET r == DeleteAsyncCallEffect(store[n], k)
  IN /\ tasks[t].pc = "idle"
     /\ store' = [store EXCEPT ![n] = r.st]
     /\ usage' = IF r.pc = "idle" THEN removeUsage(usage, n, k) ELSE usage
     /\ tasks' = [tasks EXCEPT ![t] =
                    IF r.pc = "idle" THEN Idle ELSE Task(r.pc, "deleteAsync", n, k, NoValue,
                                                        NodeGet(store[n], metaKey(k)))]
     /\ res' = IF r.pc = "idle" THEN Deleted("deleteAsync", n, k, NodeGet(store[n], metaKey(k)))
               ELSE Result("await", n, k, NoValue, "ok", NoValue)
     /\ UNCHANGED native

DeleteAsyncFinish(t) ==
  LET c == tasks[t]
  IN /\ c.pc = "deleteJoin"
     /\ store' = [store EXCEPT ![c.node] = DeleteAsyncAfterJoin(store[c.node], c.key)]
     /\ usage' = removeUsage(usage, c.node, c.key)
     /\ tasks' = [tasks EXCEPT ![t] = Idle]
     /\ res' = Deleted("deleteAsync", c.node, c.key, c.was)
     /\ UNCHANGED native

\* getPluginDataAsync is called: it runs to await decompressAsync, or to its end
RetrieveAsyncCall(t, n, k) ==
  LET r == getPluginDataAsyncRead(store[n], k)
  IN /\ tasks[t].pc = "idle"
     /\ tasks' = [tasks EXCEPT ![t] =
                    IF r.pc = "idle" THEN Idle
                    ELSE Task(r.pc, "retrieveAsync", n, k, NoValue, r.read)]
     /\ res' = IF r.pc = "idle" THEN Result("retrieveAsync", n, k, NoValue, r.err, r.val)
               ELSE Result("await", n, k, NoValue, "ok", NoValue)
     /\ UNCHANGED <<store, usage, native>>

\* decompressAsync has settled: validate and decode what was read
RetrieveAsyncFinish(t) ==
  LET c == tasks[t]
      r == getPluginDataAsyncDecode(c.was)
  IN /\ c.pc = "decompress"
     /\ tasks' = [tasks EXCEPT ![t] = Idle]
     /\ res' = Result("retrieveAsync", c.node, c.key, NoValue, r.err, r.val)
     /\ UNCHANGED <<store, usage, native>>

\* what the callers pass to the suspending forms in the default specification
AsyncStoreInputs ==
  ({"n1"} \X {"a"} \X {Text(Raw("Aa")), Text(Raw("huge")), Text(Raw("over"))})
    \cup ({"n1"} \X BadKeys \X {Text(Raw("Aa")), Text(Raw("over"))})

AsyncKeyInputs == {"n1"} \X {"a"}

Next ==
  \/ \E i \in StoreInputs : Store(i[1], i[2], i[3])
  \/ \E i \in KeyInputs : Retrieve(i[1], i[2])
  \/ \E i \in KeyInputs : Delete(i[1], i[2])
  \/ \E t \in OneTask, i \in AsyncStoreInputs : StoreAsyncCall(t, i[1], i[2], i[3])
  \/ \E t \in OneTask : StoreAsyncResume(t)
  \/ \E t \in OneTask : StoreAsyncFinish(t)
  \/ \E t \in OneTask, i \in AsyncKeyInputs : DeleteAsyncCall(t, i[1], i[2])
  \/ \E t \in OneTask : DeleteAsyncFinish(t)

Spec == Init /\ [][Next]_vars

NextLayout ==
  \/ \E i \in LayoutStoreInputs : Store(i[1], i[2], i[3])
  \/ \E i \in LayoutKeyInputs : Retrieve(i[1], i[2])
  \/ \E i \in LayoutKeyInputs : Delete(i[1], i[2])

SpecLayout == Init /\ [][NextLayout]_vars

(***************************************************************************)
(* Writes made to the records of a node from outside this layer             *)
(* (node.setPluginData called directly), as the corruption tests make them. *)
(***************************************************************************)
\* how many outside writes a behaviour has
MaxNative == 1

TamperValues == {Text(Raw("Aa")), Text(Raw("big2"))}

\* a text that is no gzip+base64 image
Garbage == Junk(40)

\* the first chunk of another payload
ForeignChunk == chunk(compress(Raw("big3")))[1]

\* whole images of other texts; "BB" has the checksum of "Aa"
ForeignImages == {compress(Raw("BB")), compress(Raw("n12"))}

\* a checksum other than c
OtherSum(c) ==
  IF c = calculateChecksum(Raw("big2")) THEN calculateChecksum(Raw("Aa"))
  ELSE calculateChecksum(Raw("big2"))

\* the physical keys retrieve(key) reads under the metadata record it finds
Addressed(st, key) ==
  LET metadata == ParseMeta(NodeGet(st, metaKey(key)))
  IN IF ~metadata.ok THEN {}
     ELSE IF metadata.chunked
          THEN {calculateChunkKey(key, i) : i \in 0..(metadata.totalChunks - 1)}
          ELSE {key}

\* key is managed and reads back
Intact(st, key) ==
  /\ metaKey(key) \in DOMAIN st
  /\ getPluginData(st, key).err = "ok"

\* the outside writes tried on the records of key: <<kind, physical key, text>>
NativeInputs(st, key) ==
  LET m == NodeGet(st, metaKey(key))
  IN (IF m.t = "meta"
      THEN {<<"metadata", metaKey(key), Garbage>>,
            <<"checksum", metaKey(key), [m EXCEPT !.checksum = OtherSum(m.checksum)]>>}
      ELSE {})
     \cup (IF key \in DOMAIN st
          THEN {<<"mutate", key, x>> : x \in (ForeignImages \cup {Garbage}) \ {st[key]}}
          ELSE {})
     \cup UNION {{<<"mutate", calculateChunkKey(key, i), Garbage>>,
                  <<"mutate", calculateChunkKey(key, i), ForeignChunk>>,
                  <<"remove", calculateChunkKey(key, i), EmptyText>>}
                   : i \in ChunkIndexes(st, key)}

Tampered(kind, nodeId, key, target, st) ==
  [op |-> "native", node |-> nodeId, key |-> key, val |-> NoValue, err |-> "ok",
   ret |-> NoValue, was |-> EmptyText, again |-> FALSE,
   kind |-> kind, target |-> target,
   intact |-> Intact(st, key), addressed |-> target \in Addressed(st, key)]

\* node.setPluginData(target, x), called from outside the layer
NativeSet(n, k, kind, target, x) ==
  /\ native < MaxNative
  /\ NodeAccepts(target, x)
  /\ store' = [store EXCEPT ![n] = NodeSet(store[n], target, x)]
  /\ native' = native + 1
  /\ res' = Tampered(kind, n, k, target, store[n])
  /\ UNCHANGED <<usage, tasks>>

NextTamper ==
  \/ \E v \in TamperValues : Store("n1", "a", v)
  \/ Retrieve("n1", "a")
  \/ Delete("n1", "a")
  \/ \E t \in OneTask : DeleteAsyncCall(t, "n1", "a")
  \/ \E t \in OneTask : DeleteAsyncFinish(t)
  \/ \E t \in OneTask : RetrieveAsyncCall(t, "n1", "a")
  \/ \E t \in OneTask : RetrieveAsyncFinish(t)
  \/ \E i \in NativeInputs(store["n1"], "a") : NativeSet("n1", "a", i[1], i[2], i[3])

SpecTamper == Init /\ [][NextTamper]_vars

(***************************************************************************)
(* Values written before this layer was in use: raw texts at bare keys,     *)
(* which retrieve passes through and migrate takes over.                    *)
(***************************************************************************)
\* the raw texts found at bare keys; "12" parses as JSON, "Aa" does not
LegacyTexts == {Raw("n12"), Raw("Aa")}

NativeStoreInputs == {"n1"} \X {"a"} \X {Text(Raw("objsp")), Text(Raw("big2"))}

\* node.setPluginData(k, x) of a raw text at a bare key that is not managed
LegacySet(n, k, x) ==
  /\ metaKey(k) \notin DOMAIN store[n]
  /\ NodeAccepts(k, x)
  /\ store' = [store EXCEPT ![n] = NodeSet(store[n], k, x)]
  /\ res' = Result("legacy", n, k, Text(x), "ok", NoValue)
  /\ UNCHANGED <<usage, tasks, native>>

\* the value of F at e, with e evaluated once
Bind(e, F(_)) == CHOOSE out \in {F(x) : x \in {e}} : TRUE

\* one pass of the loop body of migrateFromNative: already managed or empty
\* -> skipped, the store succeeds -> migrated, it throws -> failed
migrateKey(acc, nodeId, key) ==
  LET metadataStr == NodeGet(acc.st, metaKey(key))
      value == NodeGet(acc.st, key)
  IN IF TLen(metadataStr) # 0 \/ TLen(value) = 0
     THEN [acc EXCEPT !.result.skipped = Append(@, key)]
     ELSE Bind(setPluginData(acc.st, acc.us, nodeId, key, Text(value)),
               LAMBDA r : [st |-> r.st, us |-> r.us,
                           result |-> IF r.err = "ok"
                                      THEN [acc.result EXCEPT !.migrated = Append(@, key)]
                                      ELSE [acc.result EXCEPT !.failed = Append(@, key)]])

\* for (const key of targetKeys): a failed key does not end the loop
RECURSIVE migrateLoop(_, _, _)
migrateLoop(acc, nodeId, targetKeys) ==
  IF targetKeys = <<>> THEN acc
  ELSE Bind(migrateKey(acc, nodeId, Head(targetKeys)),
            LAMBDA next : migrateLoop(next, nodeId, Tail(targetKeys)))

migrateFromNative(st, us, nodeId, targetKeys) ==
  migrateLoop([st |-> st, us |-> us,
               result |-> [migrated |-> <<>>, failed |-> <<>>, skipped |-> <<>>]],
              nodeId, targetKeys)

\* the orders in which the host may list the keys of S
Orders(S) == {q \in [1..Cardinality(S) -> S] : \A i, j \in DOMAIN q : q[i] = q[j] => i = j}

\* migrateFromNative(keys): the lists passed as keys
MigrateLists == {<<"a">>, <<"__fpdu_meta_a_1", "a">>}

\* migrateFromNative(keys?) on node n over targetKeys: keys, or without
\* keys the unreserved keys of the node in the host's order
Migrate(n, targetKeys) ==
  \E r \in {migrateFromNative(store[n], usage, n, targetKeys)} :
     /\ store' = [store EXCEPT ![n] = r.st]
     /\ usage' = r.us
     /\ res' = [Result("migrate", n, "", NoValue, "ok", NoValue) EXCEPT
                 !.val = targetKeys, !.ret = r.result]
     /\ UNCHANGED <<tasks, native>>

\* the re-store of key with the value data just read: a smaller ledger
\* entry is counted; a throw skips the key. rewritten collects the keys
\* whose setPluginData returned.
optimizeStore(acc, nodeId, key, data) ==
  LET oldUsage == getKeyUsage(acc.us, nodeId, key)
  IN Bind(setPluginData(acc.st, acc.us, nodeId, key, data),
          LAMBDA r :
            LET newUsage == getKeyUsage(r.us, nodeId, key)
                saved == IF newUsage < oldUsage THEN oldUsage - newUsage ELSE 0
            IN [st |-> r.st, us |-> r.us,
                result |-> IF r.err # "ok" THEN acc.result
                           ELSE [bytesSaved |-> acc.result.bytesSaved + saved,
                                 keysOptimized |-> acc.result.keysOptimized
                                                     + (IF saved > 0 THEN 1 ELSE 0),
                                 rewritten |-> acc.result.rewritten \cup {key}]])

\* one pass of the loop body of optimizeStorage: no ledger entry ->
\* continue; a read that throws skips the key
optimizeKey(acc, nodeId, key) ==
  IF getKeyUsage(acc.us, nodeId, key) = 0 THEN acc
  ELSE Bind(getPluginData(acc.st, key),
            LAMBDA data : IF data.err # "ok" THEN acc
                          ELSE optimizeStore(acc, nodeId, key, data.val))

RECURSIVE optimizeLoop(_, _, _)
optimizeLoop(acc, nodeId, keys) ==
  IF keys = <<>> THEN acc
  ELSE Bind(optimizeKey(acc, nodeId, Head(keys)),
            LAMBDA next : optimizeLoop(next, nodeId, Tail(keys)))

optimizeStorage(st, us, nodeId, keys) ==
  optimizeLoop([st |-> st, us |-> us,
                result |-> [bytesSaved |-> 0, keysOptimized |-> 0, rewritten |-> {}]],
               nodeId, keys)

\* optimizeStorage() on node n, keys = getPluginDataKeys() in the host's order
Optimize(n, keys) ==
  \E r \in {optimizeStorage(store[n], usage, n, keys)} :
     /\ store' = [store EXCEPT ![n] = r.st]
     /\ usage' = r.us
     /\ res' = [Result("optimize", n, "", NoValue, "ok", NoValue) EXCEPT
                 !.val = keys, !.ret = r.result]
     /\ UNCHANGED <<tasks, native>>

\* the host's setPluginData overwrites the data record of the managed key k
Garble(n, k) ==
  /\ metaKey(k) \in DOMAIN store[n]
  /\ k \in DOMAIN store[n]
  /\ store' = [store EXCEPT ![n] = NodeSet(store[n], k, Garbage)]
  /\ res' = Result("native", n, k, Text(Garbage), "ok", NoValue)
  /\ UNCHANGED <<usage, tasks, native>>

NextNative ==
  \/ \E keys \in Orders(getPluginDataKeys(store["n1"])) : Optimize("n1", keys)
  \/ Garble("n1", "a_1")
  \/ \E targetKeys \in MigrateLists \cup Orders(getPluginDataKeys(store["n1"])) :
       Migrate("n1", targetKeys)
  \/ \E k \in Keys, x \in LegacyTexts : LegacySet("n1", k, x)
  \/ \E i \in NativeStoreInputs : Store(i[1], i[2], i[3])
  \/ \E k \in Keys : Retrieve("n1", k)
  \/ \E k \in Keys : Delete("n1", k)

SpecNative == Init /\ [][NextNative]_vars

(***************************************************************************)
(* Keys long enough that a full chunk record under them is over the         *)
(* per-record limit while a shorter last chunk is not.                      *)
(***************************************************************************)
\* String.prototype.repeat
RECURSIVE Repeat(_, _)
Repeat(str, n) ==
  IF n = 0 THEN ""
  ELSE LET half == Repeat(str, n \div 2)
       IN IF n % 2 = 0 THEN half \o half ELSE half \o half \o str

LongKey == Repeat("k", 16000)

LongKeys == {"a", LongKey}

LongValues == {Text(Raw("Aa")), Text(Raw("big2"))}

NextLong ==
  \/ \E k \in LongKeys, v \in LongValues : Store("n1", k, v)
  \/ \E k \in LongKeys : Retrieve("n1", k)
  \/ \E k \in LongKeys : Delete("n1", k)
  \/ \E t \in OneTask, k \in LongKeys, v \in LongValues : StoreAsyncCall(t, "n1", k, v)
  \/ \E t \in OneTask : StoreAsyncResume(t)
  \/ \E t \in OneTask : StoreAsyncFinish(t)
  \/ \E t \in OneTask, k \in LongKeys : DeleteAsyncCall(t, "n1", k)
  \/ \E t \in OneTask : DeleteAsyncFinish(t)
  \/ \E t \in OneTask, k \in LongKeys : RetrieveAsyncCall(t, "n1", k)
  \/ \E t \in OneTask : RetrieveAsyncFinish(t)

SpecLong == Init /\ [][NextLong]_vars

(***************************************************************************)
(* Two owners on the shared ledger, and cleanupNode.                        *)
(***************************************************************************)
\* for (const key of keys) this.deletePluginData(key)
RECURSIVE cleanupLoop(_, _, _)
cleanupLoop(acc, nodeId, keys) ==
  IF keys = <<>> THEN acc
  ELSE Bind(deletePluginData(acc.st, acc.us, nodeId, Head(keys)),
            LAMBDA next : cleanupLoop(next, nodeId, Tail(keys)))

cleanupNode(st, us, nodeId, keys) ==
  Bind(cleanupLoop(Outcome("ok", st, us), nodeId, keys),
       LAMBDA r : Outcome("ok", r.st, cleanupNodeUsage(r.us, nodeId)))

\* cleanupNode() on node n, keys = getPluginDataKeys() in the host's order
Cleanup(n, keys) ==
  \E r \in {cleanupNode(store[n], usage, n, keys)} :
     /\ store' = [store EXCEPT ![n] = r.st]
     /\ usage' = r.us
     /\ res' = [Result("cleanup", n, "", NoValue, "ok", NoValue) EXCEPT !.val = keys]
     /\ UNCHANGED <<tasks, native>>

OwnerStoreInputs ==
  ({"n1"} \X Keys \X {Text(Raw("Aa")), Text(Raw("big2"))})
    \cup ({"n2"} \X {"a"} \X {Text(Raw("Aa")), Text(Raw("big2"))})

NextOwners ==
  \/ \E i \in OwnerStoreInputs : Store(i[1], i[2], i[3])
  \/ \E n \in Nodes : Delete(n, "a")
  \/ \E n \in Nodes : Retrieve(n, "a")
  \/ \E n \in Nodes : \E keys \in Orders(getPluginDataKeys(store[n])) : Cleanup(n, keys)

SpecOwners == Init /\ [][NextOwners]_vars

(***************************************************************************)
(* The test host: createMockNode keeps a byte count per node and throws     *)
(* after a put that takes it over 1 MB.  Without a delete the count is the  *)
(* sum of the value lengths on the node.                                    *)
(***************************************************************************)
MOCK_NODE_QUOTA == 1024 * 1024

\* nodeUsage of the mock node
HostUsage(st) == SumFn([q \in DOMAIN st |-> TLen(st[q])])

\* the physical keys a successful store of key puts, in the order of the
\* puts, read from the records st2 it leaves
PutsOf(st2, key) ==
  LET metadata == ParseMeta(NodeGet(st2, metaKey(key)))
  IN IF metadata.chunked
     THEN [i \in 1..(metadata.totalChunks + 1) |->
             IF i <= metadata.totalChunks THEN calculateChunkKey(key, i - 1) ELSE metaKey(key)]
     ELSE <<key, metaKey(key)>>

\* setPluginData on the mock node.  The keys stored here are short, so
\* every error of the store itself is raised before its first put; the put
\* that takes the node over its quota is stored, then the host throws, and
\* the catch of setPluginData turns that into CompressionError.
setPluginDataOnMock(st, us, nodeId, key, value) ==
  Bind(setPluginData(st, us, nodeId, key, value),
       LAMBDA r :
         IF r.err # "ok" THEN r
         ELSE LET puts == PutsOf(r.st, key)
                  N == Len(puts)
                  grow == [i \in 1..N |-> TLen(r.st[puts[i]]) - TLen(NodeGet(st, puts[i]))]
                  used == HostUsage(st)
                  over == {i \in 1..N : used + SumRange(grow, 1, i) > MOCK_NODE_QUOTA}
                  first == CHOOSE i \in over : \A j \in over : i <= j
                  done == {puts[i] : i \in 1..first}
                  oldUsage == getKeyUsage(us, nodeId, key)
              IN IF over = {} THEN r
                 ELSE CatchStore(Outcome("Error",
                        [q \in DOMAIN st \cup done |-> IF q \in done THEN r.st[q] ELSE st[q]],
                        IF oldUsage > 0 THEN removeUsage(us, nodeId, key) ELSE us)))

StoreOnMock(n, k, v) ==
  \E r \in {setPluginDataOnMock(store[n], usage, n, k, v)} :
     /\ store' = [store EXCEPT ![n] = r.st]
     /\ usage' = r.us
     /\ res' = Result("store", n, k, v, r.err, NoValue)
     /\ UNCHANGED <<tasks, native>>

HostStoreInputs ==
  ({"n1"} \X Keys \X {Text(Raw("Aa")), Text(Raw("big2")), Text(Raw("big14"))})
    \cup ({"n1"} \X {"a", ""} \X {Struct("cyclic"), Text(Raw("over"))})

NextHost ==
  \/ \E i \in HostStoreInputs : StoreOnMock(i[1], i[2], i[3])
  \/ \E k \in Keys : Retrieve("n1", k)

SpecHost == Init /\ [][NextHost]_vars

(***************************************************************************)
(* The ledger called directly: GlobalQuotaManager is a static class, every  *)
(* caller reaches recordUsage, removeUsage and cleanupNode.                 *)
(***************************************************************************)
LedgerBytes == {0, 10, 25}

\* the last ledger call: res.val is the byte count passed, res.ret the
\* usage of the entry before the call
LedgerResult(op, n, k, bytes) ==
  [Result(op, n, k, NoValue, "ok", NoValue) EXCEPT
     !.val = bytes, !.ret = getKeyUsage(usage, n, k)]

Record(n, k, bytes) ==
  /\ usage' = recordUsage(usage, n, k, bytes)
  /\ res' = LedgerResult("record", n, k, bytes)
  /\ UNCHANGED <<store, tasks, native>>

Remove(n, k) ==
  /\ usage' = removeUsage(usage, n, k)
  /\ res' = LedgerResult("remove", n, k, 0)
  /\ UNCHANGED <<store, tasks, native>>

CleanupLedger(n) ==
  /\ usage' = cleanupNodeUsage(usage, n)
  /\ res' = LedgerResult("cleanupLedger", n, "", 0)
  /\ UNCHANGED <<store, tasks, native>>

NextLedger ==
  \/ \E n \in Nodes, k \in Keys, bytes \in LedgerBytes : Record(n, k, bytes)
  \/ \E n \in Nodes, k \in Keys : Remove(n, k)
  \/ \E n \in Nodes : CleanupLedger(n)
  \/ Store("n1", "a", Text(Raw("Aa")))
  \/ Delete("n1", "a")

SpecLedger == Init /\ [][NextLedger]_vars

(***************************************************************************)
(* Keys and payloads at the limits of the layout decision: key "a_1" has    *)
(* safe chunk size 102380, the keys of 15344, 15345 and 15346 characters    *)
(* have a safe chunk size just below CHUNK_SIZE, and their chunk 0 of a     *)
(* CHUNK_SIZE payload makes a record of 102399, 102400 and 102401.          *)
(***************************************************************************)
Key44 == Repeat("k", 15344)

Key45 == Repeat("k", 15345)

Key46 == Repeat("k", 15346)

EdgeKeys == {"a_1", Key44, Key45, Key46}

EdgeStoreInputs ==
  ({"a_1"} \X {Text(Raw("edge1")), Text(Raw("edge2"))})
    \cup ({Key44} \X {Text(Raw("c87")), Text(Raw("edge2"))})
    \cup ({Key45, Key46} \X {Text(Raw("c87"))})

\* a caller that could run between the record puts of a suspending store and
\* its ledger entry
Settled_Anywhere == TRUE

\* no suspending store is between its record puts and its ledger entry: the
\* awaits after compressAsync are on settled promises, so nothing of the
\* caller runs there
Settled == \A t \in TaskIds : tasks[t].pc \notin {"singleJoin", "chunksJoin"}

NextEdge ==
  \/ \E in \in EdgeStoreInputs : Settled /\ Store("n1", in[1], in[2])
  \/ \E k \in EdgeKeys : Settled /\ Retrieve("n1", k)
  \/ \E t \in OneTask, in \in EdgeStoreInputs : Settled /\ StoreAsyncCall(t, "n1", in[1], in[2])
  \/ \E t \in OneTask : StoreAsyncResume(t)
  \/ \E t \in OneTask : StoreAsyncFinish(t)

SpecEdge == Init /\ [][NextEdge]_vars

(***************************************************************************)
(* ChunkManager.chunk on its own: the loop of the code, applied to payloads *)
(* of lengths around 0, CHUNK_SIZE and its multiples, cut from one          *)
(* compressed image or joined from two.                                     *)
(***************************************************************************)
\* a loop that also takes the piece starting at data.length
RECURSIVE chunkLoop_Inclusive(_, _)
chunkLoop_Inclusive(x, i) ==
  IF i <= SegsLen(x.segs)
  THEN <<Comp(SliceSegs(x.segs, i, i + CHUNK_SIZE))>> \o chunkLoop_Inclusive(x, i + CHUNK_SIZE)
  ELSE <<>>

\* for (let i = ...; i < data.length; i += CHUNK_SIZE) chunks.push(data.slice(i, i + CHUNK_SIZE))
RECURSIVE chunkLoop(_, _)
chunkLoop(x, i) ==
  IF i < SegsLen(x.segs)
  THEN <<Comp(SliceSegs(x.segs, i, i + CHUNK_SIZE))>> \o chunkLoop(x, i + CHUNK_SIZE)
  ELSE <<>>

SplitLengths ==
  {0, 1, 2, CHUNK_SIZE - 1, CHUNK_SIZE, CHUNK_SIZE + 1, 2 * CHUNK_SIZE - 1, 2 * CHUNK_SIZE,
   2 * CHUNK_SIZE + 1, 2 * CHUNK_SIZE + 1000, 3 * CHUNK_SIZE, 14 * CHUNK_SIZE}

SplitImages == {compress(Raw(d)) : d \in {"big2", "big3", "big14", "huge"}}

SplitPayloads ==
  {Comp(SliceSegs(c.segs, from, from + n)) :
     c \in SplitImages, from \in {0, 1, CHUNK_SIZE}, n \in SplitLengths}
    \cup {JoinText(Comp(SliceSegs(compress(Raw("big2")).segs, 0, n)),
                   Comp(SliceSegs(compress(Raw("big3")).segs, 7, 7 + m))) :
            n \in {1, CHUNK_SIZE - 1, CHUNK_SIZE}, m \in {1, CHUNK_SIZE, CHUNK_SIZE + 1}}

\* chunk(data) is called
Split(x) ==
  /\ res' = Result("split", "", "", Text(x), "ok",
                    [t |-> "chunks", chunks |-> chunkLoop(x, 0), totalSize |-> TLen(x)])
  /\ UNCHANGED <<store, usage, tasks, native>>

NextSplit == \E x \in SplitPayloads : Split(x)

SpecSplit == Init /\ [][NextSplit]_vars

(***************************************************************************)
(* The derived keys of two logical keys and chunk indexes, side by side.    *)
(* The base keys hold underscores, digits and the words of the prefixes.    *)
(***************************************************************************)
DeriveKeys == {"a", "a_1", "a_1_0", "a1", "a_", "_1", "meta_a", "chunk_a_0"}

DeriveIndexes == {0, 1, 10, MAX_CHUNK_INDEX}

\* calculateChunkKey and the metadata key of (k1, i) and of (k2, j)
Derive(k1, i, k2, j) ==
  /\ res' = Result("derive", "", k1, [t |-> "pair", key |-> k2, i |-> i, j |-> j], "ok",
                    [t |-> "keys",
                     c1 |-> calculateChunkKey(k1, i), m1 |-> metaKey(k1),
                     c2 |-> calculateChunkKey(k2, j), m2 |-> metaKey(k2)])
  /\ UNCHANGED <<store, usage, tasks, native>>

NextDerive == \E k1 \in DeriveKeys, k2 \in DeriveKeys, i \in DeriveIndexes, j \in DeriveIndexes : Derive(k1, i, k2, j)

SpecDerive == Init /\ [][NextDerive]_vars

(***************************************************************************)
(* Replacing stores that pass, that fail the quota check and that fail the  *)
(* validation of a chunk record: key "a" takes a small text and a text      *)
(* whose estimate is the whole quota, the key of 15346 characters takes a   *)
(* small text and a payload whose chunk record is too large.                *)
(***************************************************************************)
OrderStoreInputs ==
  ({"a"} \X {Text(Raw("Aa")), Text(Raw("big2")), Text(Raw("huge"))})
    \cup ({Key46} \X {Text(Raw("Aa")), Text(Raw("c87"))})

NextOrder ==
  \/ \E in \in OrderStoreInputs : Settled /\ Store("n1", in[1], in[2])
  \/ \E t \in OneTask, in \in OrderStoreInputs : Settled /\ StoreAsyncCall(t, "n1", in[1], in[2])
  \/ \E t \in OneTask : StoreAsyncResume(t)
  \/ \E t \in OneTask : StoreAsyncFinish(t)
  \/ Settled /\ Delete("n1", "a")

SpecOrder == Init /\ [][NextOrder]_vars

(***************************************************************************)
(* IntegrityValidator on its own: a text, and the text with one character  *)
(* replaced.  'zsjpxag' has the 32-bit hash -1.                             *)
(***************************************************************************)
SumTexts ==
  {<<122, 115, 106, 112, 120, 97, 103>>, <<65, 97>>, <<66, 66>>, <<97>>,
   <<72, 101, 108, 108, 111, 32, 119, 111, 114, 108, 100>>}

SumChars == {32, 65, 66, 97, 98, 105, 122}

\* calculateChecksum(text), validate(text, checksum) and validate(other,
\* checksum), other being text with the character at i replaced by c
Checksum(cs, i, c) ==
  LET other == [cs EXCEPT ![i] = c]
      sum == calculateChecksum(Chars(cs))
  IN /\ c # cs[i]
     /\ res' = Result("checksum", "", "", Text(Chars(cs)), "ok",
                       [t |-> "sums", other |-> Chars(other), at |-> i,
                        h1 |-> HashChars([hi |-> 0, lo |-> 0], cs),
                        h2 |-> HashChars([hi |-> 0, lo |-> 0], other),
                        sum |-> sum,
                        again |-> calculateChecksum(Chars(cs)),
                        verify1 |-> validate(Chars(cs), sum),
                        verify2 |-> validate(Chars(other), sum)])
     /\ UNCHANGED <<store, usage, tasks, native>>

NextSum == \E cs \in SumTexts : \E i \in 1..Len(cs) : \E c \in SumChars : Checksum(cs, i, c)

SpecSum == Init /\ [][NextSum]_vars

(***************************************************************************)
(* Deletes of caller keys and of strings under the reserved prefix, which   *)
(* deletePluginData does not refuse, on a node holding 'a' and 'a_1'.       *)
(***************************************************************************)
ConfineStoreInputs ==
  ({"a"} \X {Text(Raw("Aa")), Text(Raw("big2"))}) \cup ({"a_1"} \X {Text(Raw("Aa"))})

ConfineDeleteKeys == {"a", "a_1", "__fpdu_meta_a", "__fpdu_chunk_a_0", "__fpdu_chunk_a_1_0"}

NextConfine ==
  \/ \E in \in ConfineStoreInputs : Settled /\ Store("n1", in[1], in[2])
  \/ \E k \in ConfineDeleteKeys : Delete("n1", k)
  \/ \E t \in OneTask, k \in ConfineDeleteKeys : DeleteAsyncCall(t, "n1", k)
  \/ \E t \in OneTask : DeleteAsyncFinish(t)
  \/ \E k \in Keys : Retrieve("n1", k)

SpecConfine == Init /\ [][NextConfine]_vars

(***************************************************************************)
(* Reads while a suspending store to the same key waits for compressAsync:  *)
(* the gzip and gunzip callbacks are event-loop tasks, the awaits on        *)
(* Promise.all are on settled promises.                                     *)
(***************************************************************************)
YieldValues == {Text(Raw("Aa")), Text(Raw("big2")), Text(Raw("big3"))}

NextYield ==
  \/ \E v \in YieldValues : Settled /\ Store("n1", "a", v)
  \/ \E v \in YieldValues : Settled /\ StoreAsyncCall("t1", "n1", "a", v)
  \/ StoreAsyncResume("t1")
  \/ StoreAsyncFinish("t1")
  \/ Settled /\ Retrieve("n1", "a")
  \/ Settled /\ RetrieveAsyncCall("t2", "n1", "a")
  \/ Settled /\ RetrieveAsyncFinish("t2")

SpecYield == Init /\ [][NextYield]_vars

(***************************************************************************)
(* Deletes while a suspending store to the same key waits for               *)
(* compressAsync.  The rest of deletePluginDataAsync runs as a microtask,   *)
(* before the gzip callback that resumes the store.                         *)
(***************************************************************************)
MicrotasksDrained == \A t \in TaskIds : tasks[t].pc # "deleteJoin"

NextUndo ==
  \/ \E v \in YieldValues : Settled /\ Store("n1", "a", v)
  \/ \E v \in YieldValues : Settled /\ StoreAsyncCall("t1", "n1", "a", v)
  \/ MicrotasksDrained /\ StoreAsyncResume("t1")
  \/ StoreAsyncFinish("t1")
  \/ Settled /\ Delete("n1", "a")
  \/ Settled /\ DeleteAsyncCall("t2", "n1", "a")
  \/ DeleteAsyncFinish("t2")

SpecUndo == Init /\ [][NextUndo]_vars

(***************************************************************************)
(* Two owners, each through its own PluginData: stores, deletes, migrations *)
(* of a legacy text, optimizations and cleanups on both.                    *)
(***************************************************************************)
IsolateValues == {Text(Raw("Aa")), Text(Raw("big2"))}

NextIsolate ==
  \/ \E n \in Nodes, v \in IsolateValues : Store(n, "a", v)
  \/ \E n \in Nodes : Delete(n, "a")
  \/ \E n \in Nodes : LegacySet(n, "a", Raw("Aa"))
  \/ \E n \in Nodes : Migrate(n, <<"a">>)
  \/ \E n \in Nodes : \E keys \in Orders(getPluginDataKeys(store[n])) : Optimize(n, keys)
  \/ \E n \in Nodes : \E keys \in Orders(getPluginDataKeys(store[n])) : Cleanup(n, keys)

SpecIsolate == Init /\ [][NextIsolate]_vars

(***************************************************************************)
(* The calls that only read: retrieves of a passthrough text, of a          *)
(* single-record and of a chunked value and of a record the host has        *)
(* overwritten, the key list, canStore and the two quota reports.           *)
(***************************************************************************)
AffordSizes == {200, 3000000, MAX_TOTAL_QUOTA}

Size(n) == [t |-> "size", n |-> n]

\* getPluginDataKeys() on node n
ListKeys(n) ==
  /\ res' = Result("keys", n, "", NoValue, "ok", getPluginDataKeys(store[n]))
  /\ UNCHANGED <<store, usage, tasks, native>>

\* a canStore that books what it grants
CanAfford_Reserving(sizeBytes) ==
  /\ res' = [Result("canStore", "", "", Size(sizeBytes), "ok", canStore(usage, sizeBytes))
               EXCEPT !.again = res.op = "canStore" /\ res.val = Size(sizeBytes)]
  /\ usage' = IF canStore(usage, sizeBytes)
               THEN recordUsage(usage, "", "", getKeyUsage(usage, "", "") + sizeBytes)
               ELSE usage
  /\ UNCHANGED <<store, tasks, native>>

\* GlobalQuotaManager.canStore(sizeBytes)
CanAfford(sizeBytes) ==
  /\ res' = [Result("canStore", "", "", Size(sizeBytes), "ok", canStore(usage, sizeBytes))
               EXCEPT !.again = res.op = "canStore" /\ res.val = Size(sizeBytes)]
  /\ UNCHANGED <<store, usage, tasks, native>>

\* getQuotaUsage()
Report ==
  /\ res' = Result("report", "", "", NoValue, "ok", getUsageReport(usage))
  /\ UNCHANGED <<store, usage, tasks, native>>

\* getQuotaStats()
Stats ==
  /\ res' = Result("stats", "", "", NoValue, "ok", getQuotaStats(usage))
  /\ UNCHANGED <<store, usage, tasks, native>>

NextRead ==
  \/ \E v \in TamperValues : Store("n1", "a", v)
  \/ LegacySet("n1", "a_1", Raw("Aa"))
  \/ Garble("n1", "a")
  \/ \E k \in Keys : Retrieve("n1", k)
  \/ \E k \in Keys : RetrieveAsyncCall("t1", "n1", k)
  \/ RetrieveAsyncFinish("t1")
  \/ ListKeys("n1")
  \/ \E sizeBytes \in AffordSizes : CanAfford(sizeBytes)
  \/ Report
  \/ Stats

SpecRead == Init /\ [][NextRead]_vars

(***************************************************************************)
(* Two suspending stores to one key that overlap at their awaits.           *)
(***************************************************************************)
RaceValues == {Text(Raw("Aa")), Text(Raw("big2")), Text(Raw("big3"))}

\* the gzip callback that releases task t is an event-loop task of its own:
\* it runs once the awaits of already settled promises (the joins of the
\* other tasks) have been drained
JoinsDrained(t) ==
  \A u \in TaskIds \ {t} : tasks[u].pc \notin {"singleJoin", "chunksJoin"}

NextRace ==
  \/ \E t \in TaskIds, v \in RaceValues : StoreAsyncCall(t, "n1", "a", v)
  \/ \E t \in TaskIds : JoinsDrained(t) /\ StoreAsyncResume(t)
  \/ \E t \in TaskIds : StoreAsyncFinish(t)
  \/ Retrieve("n1", "a")

SpecRace == Init /\ [][NextRace]_vars

(***************************************************************************)
(* Properties                                                               *)
(***************************************************************************)
IsStore(r) == r.op \in {"store", "storeAsync"}
\* a key the callers may not use: empty, or under the reserved prefix
Refused(k) == k = "" \/ StartsWith(k, RESERVED_PREFIX)
IsDelete(r) == r.op \in {"delete", "deleteAsync"}

\* the compressed payload store(K, V) lays out
Payload(v) == compress(Serialize(v))

\* C1: after a successful store(K, V) the next retrieve(K) returns a value
\* deep-equal to V, for texts (the empty text and texts that parse as JSON
\* included) and structured data, in both layouts.
C1_RoundTrip ==
  (IsStore(res) /\ res.err = "ok")
    => getPluginData(store[res.node], res.key) = Returned("ok", res.val)

\* C1, the part that holds: the retrieve returns what JSON.parse makes of the
\* stored text, which is V unless V is a text that parses as JSON.
C1_RoundTripDecoded ==
  (IsStore(res) /\ res.err = "ok")
    => getPluginData(store[res.node], res.key)
         = Returned("ok", JSONParseOrText(Serialize(res.val)))

\* C2: the sum of all ledger entries never exceeds the global cap.
C2_LedgerCap == getCurrentUsage(usage) <= MAX_TOTAL_QUOTA

\* C3: a store whose estimated footprint (compressed length + 200) exceeds
\* the remaining quota at its quota check raises QuotaExceededError and
\* changes neither the records nor the ledger.
C3_QuotaRejection ==
  [][ /\ \A i \in StoreInputs :
           ( /\ res'.op = "store" /\ res'.node = i[1] /\ res'.key = i[2] /\ res'.val = i[3]
             /\ ~Refused(i[2])
             /\ BlobSize(Serialize(i[3])) <= MAX_DATA_SIZE
             /\ TLen(Payload(i[3])) + METADATA_OVERHEAD > MAX_TOTAL_QUOTA - getCurrentUsage(usage) )
           => (res'.err = "QuotaExceededError" /\ store' = store /\ usage' = usage)
      /\ \A t \in TaskIds :
           ( /\ tasks[t].pc = "compress" /\ tasks'[t].pc # "compress"
             /\ TLen(Payload(tasks[t].val)) + METADATA_OVERHEAD
                  > MAX_TOTAL_QUOTA - getCurrentUsage(usage) )
           => ( /\ res'.op = "storeAsync" /\ res'.err = "QuotaExceededError"
                /\ store' = store /\ usage' = usage )
    ]_vars

\* C3 witness: a store was rejected for quota while its key has a ledger entry
C3_Witness ==
  /\ res.op = "store" /\ res.err = "QuotaExceededError"
  /\ getKeyUsage(usage, res.node, res.key) > 0
  /\ getCurrentUsage(usage) <= MAX_TOTAL_QUOTA

\* C4: store with an empty key or a key with the reserved prefix raises
\* InvalidKeyError, whatever the value and the quota, and changes neither
\* the ledger nor the records; in the sync and the async form.
C4_KeyValidation ==
  [][ (res'.op \in {"store", "storeAsync", "await"} /\ Refused(res'.key))
        => (res'.err = "InvalidKeyError" /\ store' = store /\ usage' = usage /\ tasks' = tasks)
    ]_vars

\* C4 witness: the async form rejected a reserved key with an oversized value
\* while the quota was exhausted
C4_Witness ==
  /\ res.op = "storeAsync" /\ res.key = "__fpdu_x" /\ res.err = "InvalidKeyError"
  /\ BlobSize(Serialize(res.val)) > MAX_DATA_SIZE
  /\ ~canStore(usage, METADATA_OVERHEAD)

\* C5: for a valid key store raises DataTooLargeError exactly when the
\* serialized size exceeds 5 * 1024 * 1024, before compression and whatever
\* the quota, and then changes neither the ledger nor the records.
C5_ValueCap ==
  [][ (res'.op \in {"store", "storeAsync", "await"} /\ ~Refused(res'.key) /\ res'.val # NoValue)
        => /\ (res'.err = "DataTooLargeError") <=> (BlobSize(Serialize(res'.val)) > MAX_DATA_SIZE)
           /\ (res'.err = "DataTooLargeError") => (store' = store /\ usage' = usage /\ tasks' = tasks)
    ]_vars

\* C5 witness: an oversized value was rejected while the quota was exhausted
C5_Witness ==
  /\ IsStore(res) /\ ~Refused(res.key) /\ res.err = "DataTooLargeError"
  /\ ~canStore(usage, METADATA_OVERHEAD)

\* C6: after delete(K) on a managed key with well-formed metadata, in the
\* direct form or in the suspending form run without another operation
\* between its steps, there is no record at K, at its metadata key or at a
\* chunk key with index below totalChunks, the ledger usage of (owner, K) is 0
\* and retrieve(K) returns the empty value.
C6_DeletePost ==
  [][ LET direct == res'.op = "delete"
          atOnce == res'.op = "deleteAsync" /\ \A t \in TaskIds : tasks[t].pc = "idle"
          resumed == /\ res'.op = "deleteAsync"
                     /\ res.op = "await" /\ res.val = NoValue
                     /\ res.node = res'.node /\ res.key = res'.key
          st == store'[res'.node]
      IN (IsDelete(res') /\ res'.was.t = "meta" /\ (direct \/ atOnce \/ resumed))
           => /\ res'.key \notin DOMAIN st
              /\ metaKey(res'.key) \notin DOMAIN st
              /\ \A i \in 0..(res'.was.totalChunks - 1) :
                    calculateChunkKey(res'.key, i) \notin DOMAIN st
              /\ getKeyUsage(usage', res'.node, res'.key) = 0
              /\ getPluginData(st, res'.key) = Returned("ok", Text(EmptyText))
    ]_vars

\* C6 witness: the suspending delete of a value of two chunks has ended
\* and left no record
C6_Witness ==
  /\ res.op = "deleteAsync" /\ res.was.t = "meta" /\ res.was.chunked
  /\ res.was.totalChunks = 2
  /\ store[res.node] = <<>>

\* C7: a delete that repeats the delete before it, and the delete of a key
\* with no record and no ledger entry, end without an error and leave the
\* records, the ledger and listKeys() unchanged.
C7_DeleteIdempotent ==
  [][ (IsDelete(res') /\ res'.node \in Nodes)
        => /\ res'.err = "ok"
           /\ ( \/ res'.again
                \/ ( /\ res'.key \notin DOMAIN store[res'.node]
                     /\ metaKey(res'.key) \notin DOMAIN store[res'.node]
                     /\ ChunkIndexes(store[res'.node], res'.key) = {}
                     /\ getKeyUsage(usage, res'.node, res'.key) = 0 ) )
              => ( /\ store' = store
                   /\ usage' = usage
                   /\ getPluginDataKeys(store'[res'.node]) = getPluginDataKeys(store[res'.node]) )
    ]_vars

\* C7 witness: a key was deleted a second time while another key is stored
C7_Witness ==
  /\ res.op = "delete" /\ res.again
  /\ getCurrentUsage(usage) > 0
  /\ getPluginDataKeys(store[res.node]) # {}

\* C9: after a successful store of a key whose compressed payload exceeds
\* safeChunkSize(key), the metadata has chunked:true, totalChunks is the
\* number of chunk records present for the key, and those records joined in
\* index order are the compressed payload.
C9_ChunkConsistency ==
  (IsStore(res) /\ res.err = "ok" /\ TLen(Payload(res.val)) > getSafeChunkSize(res.key))
    => LET st == store[res.node]
           m == NodeGet(st, metaKey(res.key))
           idx == ChunkIndexes(st, res.key)
           recs == [i \in 0..(Cardinality(idx) - 1) |-> NodeGet(st, calculateChunkKey(res.key, i))]
       IN /\ m.t = "meta" /\ m.chunked
          /\ m.totalChunks = Cardinality(idx)
          /\ idx = 0..(Cardinality(idx) - 1)
          /\ JoinRange(recs, 0, Cardinality(idx) - 1) = Payload(res.val)

\* C9, the part that holds: the chunk records below totalChunks are present
\* and joined in index order they are the compressed payload.
C9_ChunksBelowTotal ==
  (IsStore(res) /\ res.err = "ok" /\ TLen(Payload(res.val)) > getSafeChunkSize(res.key))
    => LET st == store[res.node]
           m == NodeGet(st, metaKey(res.key))
       IN /\ m.t = "meta" /\ m.chunked
          /\ 0..(m.totalChunks - 1) \subseteq ChunkIndexes(st, res.key)
          /\ ReadChunks(st, res.key, m.totalChunks) = [err |-> "ok", text |-> Payload(res.val)]

\* C8: when a metadata record exists for K but cannot be parsed, delete(K)
\* erases the metadata record, the bare record and the ledger entry, and the
\* next retrieve(K) returns the empty value.
C8_DeleteUnparsable ==
  (IsDelete(res) /\ TLen(res.was) > 0 /\ ~ParseMeta(res.was).ok)
    => LET st == store[res.node]
       IN /\ metaKey(res.key) \notin DOMAIN st
          /\ res.key \notin DOMAIN st
          /\ getKeyUsage(usage, res.node, res.key) = 0
          /\ getPluginData(st, res.key) = Returned("ok", Text(EmptyText))

\* C8, the part that holds: such a delete erases the bare record and the
\* ledger entry.
C8_DeleteUnparsableBare ==
  (IsDelete(res) /\ TLen(res.was) > 0 /\ ~ParseMeta(res.was).ok)
    => /\ res.key \notin DOMAIN store[res.node]
       /\ getKeyUsage(usage, res.node, res.key) = 0

\* the outside write before this state is one of the three kinds of C10,
\* made to a key that was managed and read back
Corrupted(r) ==
  /\ r.op = "native" /\ r.intact
  /\ r.kind \in {"mutate", "checksum", "remove"}

\* the payload retrieve(key) assembles decompresses to a text with the
\* checksum of the metadata record
SameFingerprint(st, key) ==
  LET metadata == ParseMeta(NodeGet(st, metaKey(key)))
      payload == IF metadata.chunked THEN ReadChunks(st, key, metadata.totalChunks)
                 ELSE [err |-> "ok", text |-> NodeGet(st, key)]
      d == decompress(payload.text)
  IN /\ metadata.ok /\ payload.err = "ok" /\ d.err = "ok"
     /\ calculateChecksum(d.text) = metadata.checksum

\* C10 as stated: after a successful store of K, mutating the content of a
\* chunk record or of the single data record, changing the checksum in the
\* metadata, or removing a chunk record makes retrieve(K) raise
\* DataCorruptedError.
C10_AnyCorruptionDetected ==
  (Corrupted(res) /\ res.addressed)
    => getPluginData(store[res.node], res.key).err = "DataCorruptedError"

\* C10, amended: the same for a record that retrieve(K) reads, unless the
\* mutated payload still decompresses to a text with the stored checksum.
C10_CorruptionDetected ==
  (Corrupted(res) /\ res.addressed)
    => \/ res.kind = "mutate" /\ SameFingerprint(store[res.node], res.key)
       \/ getPluginData(store[res.node], res.key) = Returned("DataCorruptedError", NoValue)

\* C10 witness: a chunk record of a stored chunked value was replaced by a
\* chunk of another payload
C10_Witness ==
  /\ Corrupted(res) /\ res.addressed /\ res.kind = "mutate"
  /\ res.target = calculateChunkKey(res.key, 1)
  /\ NodeGet(store[res.node], res.target) = ForeignChunk
  /\ ~SameFingerprint(store[res.node], res.key)

\* C11: retrieve(K) on a key with a metadata record returns a value or
\* raises DataCorruptedError and nothing else, in the direct and in the
\* suspending form: unparsable metadata, a failed decompression and a
\* checksum mismatch all leave as DataCorruptedError.
C11_RetrieveNormalized ==
  /\ \A n \in Nodes, k \in Keys :
        metaKey(k) \in DOMAIN store[n]
          => /\ getPluginData(store[n], k).err \in {"ok", "DataCorruptedError"}
             /\ getPluginDataAsync(store[n], k).err \in {"ok", "DataCorruptedError"}
  /\ res.op \in {"retrieve", "retrieveAsync"} => res.err \in {"ok", "DataCorruptedError"}

\* C11 witness: the suspending retrieve failed on a data record that does
\* not decompress
C11_Witness ==
  /\ res.op = "retrieveAsync" /\ res.err = "DataCorruptedError"
  /\ NodeGet(store[res.node], res.key) = Garbage
  /\ decompress(Garbage).err = "CompressionError"
  /\ getPluginData(store[res.node], res.key).err = "DataCorruptedError"

\* C12: when K has no metadata record, retrieve(K) returns the raw text at
\* K unchanged (the empty text when K is absent), not decompressed, not
\* validated, not decoded, and does not raise; in both forms.
C12_Passthrough ==
  \A n \in Nodes, k \in Keys :
    metaKey(k) \notin DOMAIN store[n]
      => /\ getPluginData(store[n], k) = Returned("ok", Text(NodeGet(store[n], k)))
         /\ getPluginDataAsync(store[n], k) = Returned("ok", Text(NodeGet(store[n], k)))

\* C12 witness: a raw text that parses as JSON was read back as that text
C12_Witness ==
  /\ res.op = "retrieve" /\ res.err = "ok"
  /\ metaKey(res.key) \notin DOMAIN store[res.node]
  /\ res.ret = Text(Raw("n12"))
  /\ JSONParseOrText(Raw("n12")) # Text(Raw("n12"))

\* the ledger without the entry of (nodeId, key), every other entry kept
WithoutEntry(u, nodeId, key) ==
  [n \in {m \in DOMAIN u : DOMAIN u[m] # {key} \/ m # nodeId} |->
     IF n = nodeId THEN [q \in DOMAIN u[n] \ {key} |-> u[n][q]] ELSE u[n]]

\* no key of any owner is managed
NothingStored(st) == \A n \in Nodes, k \in Keys : metaKey(k) \notin DOMAIN st[n]

\* C13: a successful store changes the ledger entry of its own key only, a
\* delete removes exactly the entry of its key, so that after N stores of
\* distinct keys and the delete of all N, currentUsage() is what it was
\* before the first store (0 when every key stored has been deleted) and
\* usage(owner, key) is 0 for each deleted key.
C13_QuotaConservation ==
  [][ /\ (res'.op = "store" /\ res'.err = "ok")
           => /\ WithoutEntry(usage', res'.node, res'.key) = WithoutEntry(usage, res'.node, res'.key)
              /\ getCurrentUsage(usage')
                   = getCurrentUsage(usage) - getKeyUsage(usage, res'.node, res'.key)
                       + getKeyUsage(usage', res'.node, res'.key)
      /\ res'.op = "delete"
           => /\ usage' = WithoutEntry(usage, res'.node, res'.key)
              /\ getKeyUsage(usage', res'.node, res'.key) = 0
              /\ getCurrentUsage(usage')
                   = getCurrentUsage(usage) - getKeyUsage(usage, res'.node, res'.key)
              /\ NothingStored(store') => getCurrentUsage(usage') = 0
    ]_vars

\* C13 witness: two keys were stored and both deleted, the second delete
\* brought the ledger back to its start
C13_Witness ==
  /\ res.op = "delete" /\ res.key = "a_1" /\ res.was.t = "meta" /\ res.was.chunked
  /\ NothingStored(store)
  /\ getCurrentUsage(usage) = 0
  /\ ChunkIndexes(store[res.node], "a") # {}

\* the sizes canStore is asked about: around the remaining quota and the cap
ProbeSizes(u) ==
  {n \in {0, 1, METADATA_OVERHEAD, MAX_TOTAL_QUOTA,
          MAX_TOTAL_QUOTA - getCurrentUsage(u) - 1,
          MAX_TOTAL_QUOTA - getCurrentUsage(u),
          MAX_TOTAL_QUOTA - getCurrentUsage(u) + 1} : n >= 0}

\* C14: in every state currentUsage() + remaining() is the cap, canStore(n)
\* is true exactly when n <= remaining(), the figures of the stats and of
\* the report are currentUsage(), remaining() and the cap, and the
\* per-owner totals of the report sum to the total used.
C14_LedgerIdentity ==
  LET report == getUsageReport(usage)
      stats == getQuotaStats(usage)
  IN /\ getCurrentUsage(usage) + getRemainingQuota(usage) = MAX_TOTAL_QUOTA
     /\ \A n \in ProbeSizes(usage) : canStore(usage, n) <=> n <= getRemainingQuota(usage)
     /\ report.totalUsed = getCurrentUsage(usage)
     /\ report.remainingBytes = MAX_TOTAL_QUOTA - report.totalUsed
     /\ report.totalAvailable = MAX_TOTAL_QUOTA
     /\ SumFn(report.nodeBreakdown) = report.totalUsed
     /\ \A n \in DOMAIN report.nodeBreakdown : report.nodeBreakdown[n] = getNodeUsage(usage, n)
     /\ stats.used = report.totalUsed
     /\ stats.remaining = MAX_TOTAL_QUOTA - stats.used
     /\ stats.available = MAX_TOTAL_QUOTA

\* C14 witness: two owners hold entries and the usage is above the cap
C14_Witness ==
  /\ DOMAIN usage = Nodes
  /\ getCurrentUsage(usage) > MAX_TOTAL_QUOTA
  /\ getRemainingQuota(usage) < 0
  /\ ~canStore(usage, 0)

\* C15: from the same records and ledger and with the same inputs, the
\* directly-returning and the suspending form of store, retrieve and delete,
\* run with nothing in between, leave the same records and the same ledger
\* and end with the same result or error.
C15_FormsEquivalent ==
  \A k \in LongKeys :
    /\ \A v \in LongValues :
          setPluginDataAsync(store["n1"], usage, "n1", k, v)
            = setPluginData(store["n1"], usage, "n1", k, v)
    /\ getPluginDataAsync(store["n1"], k) = getPluginData(store["n1"], k)
    /\ deletePluginDataAsync(store["n1"], usage, "n1", k)
          = deletePluginData(store["n1"], usage, "n1", k)

\* C15, the part that holds: the two forms of retrieve and of delete agree
\* everywhere, the two forms of store agree on the result or error, on the
\* ledger, and on the records unless the store ends with an error.
C15_FormsEquivalentOnSuccess ==
  \A k \in LongKeys :
    /\ \A v \in LongValues :
          LET d == setPluginData(store["n1"], usage, "n1", k, v)
              s == setPluginDataAsync(store["n1"], usage, "n1", k, v)
          IN /\ s.err = d.err /\ s.us = d.us
             /\ d.err = "ok" => s.st = d.st
    /\ getPluginDataAsync(store["n1"], k) = getPluginData(store["n1"], k)
    /\ deletePluginDataAsync(store["n1"], usage, "n1", k)
          = deletePluginData(store["n1"], usage, "n1", k)

\* the records and the ledger one store of v to (nodeId, key) leaves on an
\* empty node and ledger
SingleWrite(nodeId, key, v) == setPluginData(<<>>, <<>>, nodeId, key, v)

\* the physical records held under key: data record, chunks, metadata
KeyRecords(st, key) ==
  LET ks == ({key, metaKey(key)} \cup {calculateChunkKey(key, i) : i \in ChunkIndexes(st, key)})
              \cap DOMAIN st
  IN [q \in ks |-> st[q]]

\* two suspending stores have overlapped and the last of them has completed
BothCompleted ==
  /\ res.op = "storeAsync" /\ res.err = "ok"
  /\ \A t \in TaskIds : tasks[t].pc = "idle"

\* C16: when suspending stores to one key have overlapped and all have
\* completed, the physical records and the ledger entry of the key are those
\* of one single write, the one that completed last, and retrieve returns
\* that write's value.
C16_LastWriteWins ==
  BothCompleted
    => LET w == SingleWrite(res.node, res.key, res.val)
       IN /\ KeyRecords(store[res.node], res.key) = KeyRecords(w.st, res.key)
          /\ getKeyUsage(usage, res.node, res.key) = getKeyUsage(w.us, res.node, res.key)
          /\ getPluginData(store[res.node], res.key)
               = Returned("ok", JSONParseOrText(Serialize(res.val)))

\* C16, the part that holds: the metadata record, the ledger entry and the
\* value retrieve returns are those of the store that completed last.
C16_LastWriteWinsLogical ==
  BothCompleted
    => LET w == SingleWrite(res.node, res.key, res.val)
           st == store[res.node]
       IN /\ NodeGet(st, metaKey(res.key)) = NodeGet(w.st, metaKey(res.key))
          /\ getKeyUsage(usage, res.node, res.key) = getKeyUsage(w.us, res.node, res.key)
          /\ getPluginData(st, res.key) = Returned("ok", JSONParseOrText(Serialize(res.val)))

\* len(key) + len(value) summed over the records the metadata of key
\* addresses (the data record, or chunks 0..totalChunks-1) and the metadata
\* record itself
Footprint(st, key) ==
  LET ks == (Addressed(st, key) \cup {metaKey(key)}) \cap DOMAIN st
  IN SumFn([q \in ks |-> Len(q) + TLen(st[q])])

\* C17: after every successful store(K, V), in the single-record and in the
\* chunked layout, usage(owner, K) is the sum of len(key) + len(value) over
\* the physical records held for K: the data record or all chunk records,
\* plus the metadata record.
C17_LedgerFootprint ==
  (IsStore(res) /\ res.err = "ok")
    => getKeyUsage(usage, res.node, res.key) = Footprint(store[res.node], res.key)

\* C17, the part that holds: the chunked layout records the whole footprint,
\* the single-record layout records it without the length of the data key.
C17_LedgerFootprintLessKey ==
  (IsStore(res) /\ res.err = "ok")
    => LET st == store[res.node]
           chunked == ParseMeta(NodeGet(st, metaKey(res.key))).chunked
       IN getKeyUsage(usage, res.node, res.key)
            = Footprint(st, res.key) - (IF chunked THEN 0 ELSE Len(res.key))

Range(q) == {q[i] : i \in DOMAIN q}

\* in how many of the three lists of result the key is named
ListsNaming(result, key) ==
  (IF key \in Range(result.migrated) THEN 1 ELSE 0)
  + (IF key \in Range(result.failed) THEN 1 ELSE 0)
  + (IF key \in Range(result.skipped) THEN 1 ELSE 0)

SameRecords(st1, st2, key) ==
  /\ NodeGet(st1, key) = NodeGet(st2, key)
  /\ NodeGet(st1, metaKey(key)) = NodeGet(st2, metaKey(key))

\* a step of migrateFromNative
MigrateStep == res'.op = "migrate"

\* C18: after migrate every candidate key is in exactly one of migrated,
\* failed, skipped; a key that had a metadata record or an empty raw value
\* is skipped and untouched; a migrated key has a metadata record and
\* retrieve returns its raw value of before; keys outside the candidates
\* keep their records.
C18_MigrateOutcome ==
  [][MigrateStep =>
      LET n == res'.node
          st == store[n]
          result == res'.ret
          candidates == Range(res'.val)
      IN /\ \A k \in candidates : ListsNaming(result, k) = 1
         /\ \A k \in candidates :
              (TLen(NodeGet(st, metaKey(k))) # 0 \/ TLen(NodeGet(st, k)) = 0)
                => k \in Range(result.skipped) /\ SameRecords(st, store'[n], k)
         /\ \A k \in Range(result.migrated) :
              /\ metaKey(k) \in DOMAIN store'[n]
              /\ getPluginData(store'[n], k) = Returned("ok", Text(NodeGet(st, k)))
         /\ \A k \in Keys \ candidates : SameRecords(st, store'[n], k)
         /\ Range(result.migrated) \cup Range(result.failed) \cup Range(result.skipped)
              = candidates]_vars

\* C18, the part that holds: a candidate is in exactly one list, a managed or empty key is skipped and untouched, a failed key does not
\* end the batch, a migrated key is managed and retrieve returns what
\* JSON.parse makes of its raw value (the raw text when it does not parse),
\* and the other keys keep their records.
C18_MigrateOutcomeParsed ==
  [][MigrateStep =>
      LET n == res'.node
          st == store[n]
          result == res'.ret
          candidates == Range(res'.val)
      IN /\ \A k \in candidates : ListsNaming(result, k) = 1
         /\ \A k \in candidates :
              (TLen(NodeGet(st, metaKey(k))) # 0 \/ TLen(NodeGet(st, k)) = 0)
                => k \in Range(result.skipped) /\ SameRecords(st, store'[n], k)
         /\ \A k \in Range(result.migrated) :
              /\ metaKey(k) \in DOMAIN store'[n]
              /\ getPluginData(store'[n], k) = Returned("ok", JSONParseOrText(NodeGet(st, k)))
         /\ \A k \in Keys \ candidates : SameRecords(st, store'[n], k)
         /\ Range(result.migrated) \cup Range(result.failed) \cup Range(result.skipped)
              = candidates]_vars

\* a batch in which one key failed and a later one was migrated
C18_FailedThenMigrated ==
  /\ res.op = "migrate"
  /\ res.ret.failed = <<"__fpdu_meta_a_1">>
  /\ res.ret.migrated = <<"a">>

\* a step of optimizeStorage
OptimizeStep == res'.op = "optimize"

\* key is managed on st and reads back
Readable(st, key) == metaKey(key) \in DOMAIN st /\ getPluginData(st, key).err = "ok"

\* the keys of nodeId whose ledger entry is smaller in u2 than in u1
Decreased(u1, u2, nodeId) ==
  {k \in Keys : getKeyUsage(u2, nodeId, k) < getKeyUsage(u1, nodeId, k)}

\* C19: optimize re-writes every managed key of the owner, single-record
\* and chunked (a key whose read raises is skipped); keysOptimized is the
\* number of keys whose ledger usage strictly decreased, bytesSaved the sum
\* of those decreases and never negative.
C19_OptimizeCovers ==
  [][OptimizeStep =>
      LET n == res'.node
          result == res'.ret
          less == Decreased(usage, usage', n)
      IN /\ \A k \in Keys : Readable(store[n], k) => k \in result.rewritten
         /\ result.keysOptimized = Cardinality(less)
         /\ result.bytesSaved
              = SumFn([k \in less |-> getKeyUsage(usage, n, k) - getKeyUsage(usage', n, k)])
         /\ result.bytesSaved >= 0]_vars

\* C19, the part that holds: optimize re-writes every readable managed key
\* that has a bare data record (the single-record layout), skips a key
\* whose read raises, and counts the decreases.
C19_OptimizeCoversSingle ==
  [][OptimizeStep =>
      LET n == res'.node
          result == res'.ret
          less == Decreased(usage, usage', n)
      IN /\ \A k \in Keys :
              (Readable(store[n], k) /\ k \in DOMAIN store[n]) => k \in result.rewritten
         /\ \A k \in Keys : ~Readable(store[n], k) => k \notin result.rewritten
         /\ result.keysOptimized = Cardinality(less)
         /\ result.bytesSaved
              = SumFn([k \in less |-> getKeyUsage(usage, n, k) - getKeyUsage(usage', n, k)])
         /\ result.bytesSaved >= 0]_vars

\* an optimize that saved bytes on one key and skipped a key that does not
\* read back
C19_SavedAndSkipped ==
  /\ res.op = "optimize"
  /\ res.ret.keysOptimized = 1
  /\ res.ret.bytesSaved > 0
  /\ \E k \in Keys : metaKey(k) \in DOMAIN store[res.node]
                       /\ getPluginData(store[res.node], k).err # "ok"

\* a store of key has succeeded on st and key has not been deleted since
Live(st, key) == metaKey(key) \in DOMAIN st

\* C20: in every reachable state listKeys() contains no key with the
\* reserved prefix and contains every logical key for which a store has
\* succeeded, in either layout, and that has not been deleted since.
C20_ListKeys ==
  \A n \in Nodes :
    /\ \A k \in getPluginDataKeys(store[n]) : ~StartsWith(k, RESERVED_PREFIX)
    /\ \A k \in Keys : Live(store[n], k) => k \in getPluginDataKeys(store[n])

\* C20, the part that holds: no listed key has the reserved prefix, and a
\* live key whose metadata says single-record is listed.
C20_ListKeysSingle ==
  \A n \in Nodes :
    /\ \A k \in getPluginDataKeys(store[n]) : ~StartsWith(k, RESERVED_PREFIX)
    /\ \A k \in Keys :
         (Live(store[n], k) /\ ~ParseMeta(NodeGet(store[n], metaKey(k))).chunked)
           => k \in getPluginDataKeys(store[n])

\* a step of cleanupNode
CleanupStep == res'.op = "cleanup"

\* C21: after cleanupNode() on an owner the ledger usage of that owner is
\* 0, its listKeys() is empty, and the ledger entries of every other owner
\* are what they were.
C21_Cleanup ==
  [][CleanupStep =>
      LET n == res'.node
      IN /\ getNodeUsage(usage', n) = 0
         /\ \A k \in Keys : getKeyUsage(usage', n, k) = 0
         /\ getPluginDataKeys(store'[n]) = {}
         /\ \A m \in Nodes \ {n} :
              /\ (m \in DOMAIN usage') = (m \in DOMAIN usage)
              /\ m \in DOMAIN usage => usage'[m] = usage[m]]_vars

\* a cleanup of an owner that had listed keys and a chunked key, while the
\* other owner has ledger entries
C21_Witness ==
  /\ res.op = "cleanup" /\ res.node = "n1"
  /\ res.val # <<>>
  /\ calculateChunkKey("a", 0) \in DOMAIN store["n1"]
  /\ getNodeUsage(usage, "n2") > 0

\* the errors of the taxonomy
Taxonomy ==
  {"DataTooLargeError", "QuotaExceededError", "EntryTooLargeError", "DataCorruptedError",
   "InvalidKeyError", "CompressionError"}

\* the byte transform fails on the text: gzipSync and btoa over 64K slices
\* fail on no text
CompressFails(x) == FALSE

\* C22: every failure of store is one error of the taxonomy, and store
\* raises CompressionError if and only if the compress step itself fails; a
\* failure of a later step (validation, a put, the ledger) is not reported
\* as CompressionError.
C22_ErrorAttribution ==
  (IsStore(res) /\ res.err # "ok")
    => /\ res.err \in Taxonomy
       /\ (res.err = "CompressionError")
            <=> (CanStringify(res.val) /\ CompressFails(Serialize(res.val)))

\* C22, the part that holds: a store that fails ends with an error of the
\* taxonomy unless JSON.stringify threw, and with CompressionError only
\* when the host refused a put.
C22_ErrorAttributionHost ==
  (IsStore(res) /\ res.err # "ok")
    => /\ \/ res.err \in Taxonomy
          \/ res.err = "TypeError" /\ ~CanStringify(res.val) /\ ~Refused(res.key)
       /\ res.err = "CompressionError" => HostUsage(store[res.node]) > MOCK_NODE_QUOTA

\* a store that ended with CompressionError and left chunk records without
\* a metadata record
C22_PutRefused ==
  /\ IsStore(res) /\ res.err = "CompressionError"
  /\ calculateChunkKey(res.key, 12) \in DOMAIN store[res.node]
  /\ metaKey(res.key) \notin DOMAIN store[res.node]

\* the entries of u other than (nodeId, key)
OtherEntries(u, nodeId, key) ==
  {<<n, k>> \in Nodes \X Keys : n \in DOMAIN u /\ k \in DOMAIN u[n] /\ <<n, k>> # <<nodeId, key>>}

SameOthers(u1, u2, nodeId, key) ==
  /\ OtherEntries(u1, nodeId, key) = OtherEntries(u2, nodeId, key)
  /\ \A e \in OtherEntries(u1, nodeId, key) : u1[e[1]][e[2]] = u2[e[1]][e[2]]

\* no owner of the ledger, and none of its report, has zero keys
NoEmptyRow(u) ==
  /\ \A n \in DOMAIN u : DOMAIN u[n] # {}
  /\ DOMAIN getUsageReport(u).keyBreakdown = DOMAIN u
  /\ DOMAIN getUsageReport(u).nodeBreakdown = DOMAIN u

\* C23: record(owner, key, b) overwrites (usage is b and currentUsage counts
\* only b), remove(owner, key) deletes the entry and drops the owner row
\* once it is empty, no ledger state has an owner with zero keys, and the
\* usage of an absent entry is 0.
C23_LedgerEntries ==
  /\ [](NoEmptyRow(usage) /\
        \A n \in Nodes, k \in Keys :
          (n \notin DOMAIN usage \/ k \notin DOMAIN usage[n]) => getKeyUsage(usage, n, k) = 0)
  /\ [][LET n == res'.node
             k == res'.key
         IN /\ (res'.op = "record") =>
                 (/\ getKeyUsage(usage', n, k) = res'.val
                  /\ getCurrentUsage(usage')
                       = getCurrentUsage(usage) - getKeyUsage(usage, n, k) + res'.val
                  /\ k \in DOMAIN usage'[n]
                  /\ SameOthers(usage, usage', n, k))
            /\ (res'.op = "remove") =>
                 (/\ (n \notin DOMAIN usage' \/ k \notin DOMAIN usage'[n])
                  /\ getKeyUsage(usage', n, k) = 0
                  /\ getCurrentUsage(usage')
                       = getCurrentUsage(usage) - getKeyUsage(usage, n, k)
                  /\ SameOthers(usage, usage', n, k))]_vars

\* a record over an entry that held another positive count, while the
\* other owner has entries
C23_Witness ==
  /\ res.op = "record" /\ res.ret > 0 /\ res.val > 0 /\ res.val # res.ret
  /\ \E n \in DOMAIN usage : n # res.node

\* a remove of the last key of an owner, which drops the row of the owner
C23_RowDropped ==
  /\ res.op = "remove" /\ res.ret > 0 /\ res.node \notin DOMAIN usage /\ usage # <<>>

\* the compressed payload of v is held by the single-record layout of key
SingleLayout(st, key, v) ==
  /\ NodeGet(st, key) = Payload(v)
  /\ ParseMeta(NodeGet(st, metaKey(key))).ok
  /\ ~ParseMeta(NodeGet(st, metaKey(key))).chunked

\* the compressed payload of v is held by the chunked layout of key
ChunkedLayout(st, key, v) ==
  LET metadata == ParseMeta(NodeGet(st, metaKey(key)))
      pieces == chunk(Payload(v))
  IN /\ metadata.ok /\ metadata.chunked
     /\ metadata.totalChunks = Len(pieces)
     /\ \A i \in 1..Len(pieces) : NodeGet(st, calculateChunkKey(key, i - 1)) = pieces[i]

\* C24: a successful store of V under K leaves the single-record layout
\* (data at the bare key K, metadata without the chunked flag) if and only
\* if the compressed length is at most the safe chunk size of K; otherwise
\* it leaves the chunked layout (chunk records, metadata with chunked: true)
\* and does not write the bare key K.
C24_LayoutDecision ==
  [][ (IsStore(res') /\ res'.err = "ok")
        => LET st1 == store[res'.node]
               st2 == store'[res'.node]
               K == res'.key
               V == res'.val
           IN IF TLen(Payload(V)) <= MAX_ENTRY_SIZE - (Len(CHUNK_PREFIX) + Len(K) + 4)
              THEN SingleLayout(st2, K, V)
              ELSE /\ ChunkedLayout(st2, K, V)
                   /\ ~SingleLayout(st2, K, V)
                   /\ NodeGet(st2, K) = NodeGet(st1, K)
    ]_vars

\* C24 witness: a payload of exactly the safe chunk size of its key was
\* stored, and the key holds the single-record layout
C24_Witness ==
  /\ IsStore(res) /\ res.err = "ok"
  /\ TLen(Payload(res.val)) = getSafeChunkSize(res.key)
  /\ SingleLayout(store[res.node], res.key, res.val)

\* a payload four characters over the safe chunk size of its key was
\* stored, and the key holds the chunked layout
C24_JustOver ==
  /\ IsStore(res) /\ res.err = "ok"
  /\ TLen(Payload(res.val)) = getSafeChunkSize(res.key) + 4
  /\ ChunkedLayout(store[res.node], res.key, res.val)

\* the data or chunk records the layout chosen for (key, compressed) puts all
\* pass their per-record validation
RecordsValid(key, compressed) ==
  IF TLen(compressed) > getSafeChunkSize(key)
  THEN \A i \in 1..Len(chunk(compressed)) :
         validateChunkEntry(calculateChunkKey(key, i - 1), chunk(compressed)[i])
  ELSE validateEntrySize(key, compressed)

\* C25: for every key and every compressed payload, once the layout is
\* chosen, the per-record validation of a data or chunk record never fails:
\* a single-record payload passes with its key, and every piece of the split
\* passes with its chunk key.
C25_LayoutValidates ==
  IsStore(res) /\ ValidKey(res.key) => RecordsValid(res.key, Payload(res.val))

\* C25, the part that holds: the records pass when the longest chunk key of
\* the key leaves room for a whole piece of CHUNK_SIZE, and a single-record
\* payload passes with every key.
C25_LayoutValidatesShortKey ==
  IsStore(res) /\ ValidKey(res.key)
    => /\ getSafeChunkSize(res.key) >= CHUNK_SIZE
            => RecordsValid(res.key, Payload(res.val))
       /\ TLen(Payload(res.val)) <= getSafeChunkSize(res.key)
            => validateEntrySize(res.key, Payload(res.val))

\* a store chose the chunked layout and its first chunk record was refused
C25_ChunkRefused ==
  /\ IsStore(res) /\ res.err = "EntryTooLargeError"
  /\ TLen(Payload(res.val)) > getSafeChunkSize(res.key)
  /\ ~validateChunkEntry(calculateChunkKey(res.key, 0), chunk(Payload(res.val))[1])
  /\ getSafeChunkSize(res.key) < CHUNK_SIZE

\* a store has completed with the chunked layout
StoredChunked ==
  /\ IsStore(res) /\ res.err = "ok"
  /\ TLen(Payload(res.val)) > MAX_ENTRY_SIZE - (Len(CHUNK_PREFIX) + Len(res.key) + 4)

\* C26: whenever store chooses the chunked layout (compressed length above
\* the safe chunk size of the key), the metadata it writes has
\* totalChunks >= 2.
C26_ChunkedSeveral ==
  StoredChunked
    => LET metadata == ParseMeta(NodeGet(store[res.node], metaKey(res.key)))
       IN metadata.chunked /\ metadata.totalChunks >= 2

\* C26, the part that holds: the chunked metadata counts at least one
\* chunk, and at least two when the payload is longer than CHUNK_SIZE, which
\* it is for every key whose safe chunk size is CHUNK_SIZE or more.
C26_ChunkedSeveralShortKey ==
  StoredChunked
    => LET metadata == ParseMeta(NodeGet(store[res.node], metaKey(res.key)))
       IN /\ metadata.chunked /\ metadata.totalChunks >= 1
          /\ metadata.totalChunks >= 2 <=> TLen(Payload(res.val)) > CHUNK_SIZE
          /\ MAX_ENTRY_SIZE - (Len(CHUNK_PREFIX) + Len(res.key) + 4) >= CHUNK_SIZE
               => metadata.totalChunks >= 2

\* a store chose the chunked layout, succeeded and wrote one chunk
C26_OneChunk ==
  /\ StoredChunked
  /\ ParseMeta(NodeGet(store[res.node], metaKey(res.key))).totalChunks = 1
  /\ ChunkIndexes(store[res.node], res.key) = {0}

\* the records store(key, v) puts when nothing fails: <<physical key, text>>
CallRecords(key, v) ==
  LET data == Serialize(v)
      compressed == Payload(v)
      pieces == chunk(compressed)
  IN IF TLen(compressed) > MAX_ENTRY_SIZE - (Len(CHUNK_PREFIX) + Len(key) + 4)
     THEN {<<calculateChunkKey(key, i - 1), pieces[i]>> : i \in 1..Len(pieces)}
            \cup {<<metaKey(key), Meta(TRUE, Len(pieces), calculateChecksum(data), BlobSize(data))>>}
     ELSE {<<key, compressed>>,
           <<metaKey(key), Meta(FALSE, 0, calculateChecksum(data), BlobSize(data))>>}

RecordSize(rec) == Len(rec[1]) + TLen(rec[2])

\* C27: the validation of a record fails with EntryTooLargeError exactly
\* when len(key) + len(value) exceeds MAX_RECORD_SIZE (a record of exactly
\* that size passes), every data, chunk and metadata record is validated
\* before it is put, and so store never issues a put over the limit: a store
\* past its quota check ends with EntryTooLargeError exactly when one of its
\* records is over the limit, the host never has to refuse a put, and no
\* record over the limit is on a node.
C27_RecordSize ==
  /\ \A n \in Nodes : \A q \in DOMAIN store[n] :
        RecordSize(<<q, store[n][q]>>) <= MAX_ENTRY_SIZE
  /\ IsStore(res) /\ ValidKey(res.key)
       => /\ res.err \in {"ok", "EntryTooLargeError"}
          /\ res.err = "EntryTooLargeError"
               <=> \E rec \in CallRecords(res.key, res.val) : RecordSize(rec) > MAX_ENTRY_SIZE

\* C27 witness: a store has put a chunk record of exactly MAX_ENTRY_SIZE
C27_Witness ==
  /\ IsStore(res) /\ res.err = "ok"
  /\ \E rec \in CallRecords(res.key, res.val) :
        /\ RecordSize(rec) = MAX_ENTRY_SIZE
        /\ NodeGet(store[res.node], rec[1]) = rec[2]

\* a store whose chunk record would have MAX_ENTRY_SIZE + 1 characters was
\* refused, and the record is not on the node
C27_OneOver ==
  /\ IsStore(res) /\ res.err = "EntryTooLargeError"
  /\ \E rec \in CallRecords(res.key, res.val) :
        /\ RecordSize(rec) = MAX_ENTRY_SIZE + 1
        /\ rec[1] \notin DOMAIN store[res.node]

\* C28: for every payload the pieces of chunk, concatenated in order, are
\* the payload; every piece is non-empty and at most CHUNK_SIZE long; every
\* piece but the last is exactly CHUNK_SIZE long; the number of pieces is
\* ceil(len / CHUNK_SIZE), so the empty payload gives no piece and a payload
\* of exactly CHUNK_SIZE gives one.
C28_Split ==
  res.op = "split"
    => LET x == res.val.s
           pieces == res.ret.chunks
           N == Len(pieces)
           L == TLen(x)
       IN /\ JoinRange(pieces, 1, N) = x
          /\ \A i \in 1..N : TLen(pieces[i]) >= 1 /\ TLen(pieces[i]) <= CHUNK_SIZE
          /\ \A i \in 1..(N - 1) : TLen(pieces[i]) = CHUNK_SIZE
          /\ N * CHUNK_SIZE >= L /\ (N - 1) * CHUNK_SIZE < L
          /\ L = 0 => pieces = <<>>
          /\ L = CHUNK_SIZE => N = 1
          /\ res.ret.totalSize = L
          /\ pieces = chunk(x)

\* C28 witness: a payload of two whole pieces and one more character was
\* split into three pieces of CHUNK_SIZE, CHUNK_SIZE and 1
C28_Witness ==
  /\ res.op = "split"
  /\ TLen(res.val.s) = 2 * CHUNK_SIZE + 1
  /\ Len(res.ret.chunks) = 3
  /\ TLen(res.ret.chunks[3]) = 1

\* the empty payload was split into no piece
C28_Empty == res.op = "split" /\ TLen(res.val.s) = 0 /\ res.ret.chunks = <<>>

\* a payload of exactly CHUNK_SIZE made of two images was split into one piece
C28_OnePiece ==
  /\ res.op = "split" /\ TLen(res.val.s) = CHUNK_SIZE
  /\ Len(res.val.s.segs) = 2
  /\ res.ret.chunks = <<res.val.s>>

\* C29: the chunk key is a function of (baseKey, index) that gives distinct
\* physical keys to distinct indexes of one baseKey; the chunk keys and the
\* metadata keys of two different valid logical keys never coincide with
\* each other, and no derived key is a valid caller key, base keys with
\* underscores and digits such as 'a' and 'a_1' included.
C29_DerivedKeys ==
  res.op = "derive"
    => LET k1 == res.key
           k2 == res.val.key
           d == res.ret
       IN /\ ~Refused(k1) /\ ~Refused(k2)
          /\ d.c1 = d.c2 <=> (k1 = k2 /\ res.val.i = res.val.j)
          /\ d.m1 = d.m2 <=> k1 = k2
          /\ d.c1 # d.m1 /\ d.c1 # d.m2 /\ d.c2 # d.m1 /\ d.c2 # d.m2
          /\ \A q \in {d.c1, d.c2, d.m1, d.m2} : Refused(q) /\ q \notin DeriveKeys

\* C29 witness: the chunk keys of 'a' at index 10 and of 'a_1' at index 0
\* (or the other way round) were derived and differ
C29_Witness ==
  /\ res.op = "derive"
  /\ res.key = "a" /\ res.val.i = 10
  /\ res.val.key = "a_1" /\ res.val.j = 0
  /\ res.ret.c1 = "__fpdu_chunk_a_10" /\ res.ret.c2 = "__fpdu_chunk_a_1_0"

\* every record of the layout of store(key, v) is on the node; the metadata
\* record is left out when meta is FALSE
Written(st, key, v, meta) ==
  \A rec \in CallRecords(key, v) :
    (rec[1] = metaKey(key) /\ ~meta) \/ NodeGet(st, rec[1]) = rec[2]

\* C30: a store that replaces a key removes the old ledger entry after the
\* quota check and before any physical write, and records the new entry only
\* after every physical write of the call has succeeded: a store refused by
\* the quota check (made with the old entry counted) changes neither ledger
\* nor records; a store that fails later ends with no entry for the key;
\* while the writes of a suspending store are awaited the key has no entry;
\* a store that succeeds leaves an entry and all its records.
C30_LedgerOrdering ==
  [][ LET n == res'.node
          K == res'.key
          V == res'.val
          estimatedSize == TLen(Payload(V)) + METADATA_OVERHEAD
          completes == IsStore(res') /\ ~Refused(K)
                         /\ (res'.op = "storeAsync" => \E t \in TaskIds : tasks[t].pc # "idle")
          awaits == \E t \in TaskIds : tasks[t].pc = "compress" /\ tasks'[t].pc \in {"singleJoin", "chunksJoin"}
      IN /\ (completes /\ res'.err = "QuotaExceededError")
              => (/\ estimatedSize > MAX_TOTAL_QUOTA - getCurrentUsage(usage)
                  /\ usage' = usage /\ store' = store)
         /\ (completes /\ res'.err \in {"EntryTooLargeError", "CompressionError"})
              => (/\ (estimatedSize <= MAX_TOTAL_QUOTA - getCurrentUsage(usage)
                         \/ res'.op = "storeAsync")
                  /\ getKeyUsage(usage', n, K) = 0
                  /\ WithoutEntry(usage', n, K) = WithoutEntry(usage, n, K))
         /\ (completes /\ res'.err = "ok")
              => (/\ getKeyUsage(usage', n, K) > 0
                  /\ Written(store'[n], K, V, TRUE))
         /\ awaits
              => (/\ estimatedSize <= MAX_TOTAL_QUOTA - getCurrentUsage(usage)
                  /\ getKeyUsage(usage', n, K) = 0
                  /\ Written(store'[n], K, V, TLen(Payload(V)) <= getSafeChunkSize(K)))
    ]_vars

\* C30 witness: a store that replaced a key failed on a chunk record after
\* the removal, and the key has no ledger entry
C30_Witness ==
  /\ IsStore(res) /\ res.err = "EntryTooLargeError"
  /\ getKeyUsage(usage, res.node, res.key) = 0
  /\ ParseMeta(NodeGet(store[res.node], metaKey(res.key))).ok

\* a replacing store was refused by the quota check and the old entry stays
C30_QuotaKeepsEntry ==
  /\ IsStore(res) /\ res.err = "QuotaExceededError"
  /\ getKeyUsage(usage, res.node, res.key) > 0

\* a replacing suspending store awaits its writes: the old entry is gone,
\* the new one not yet recorded
C30_Awaiting ==
  /\ \E t \in TaskIds : tasks[t].pc = "chunksJoin" /\ tasks[t].key = "a"
  /\ getKeyUsage(usage, "n1", "a") = 0
  /\ ~ParseMeta(NodeGet(store["n1"], metaKey("a"))).chunked
  /\ ParseMeta(NodeGet(store["n1"], metaKey("a"))).ok

\* the totalUsage a successful store(key, v) hands to recordUsage: the
\* records of its layout, the bare key of a data record not counted
RecordedCost(key, v) ==
  LET recs == CallRecords(key, v)
  IN SumFn([rec \in recs |-> IF rec[1] = key THEN TLen(rec[2]) ELSE RecordSize(rec)])

\* the last call was a store of res.key that failed after it had removed the
\* ledger entry of the key: the records of the earlier value are on the node
\* and the ledger has nothing for the key
Drifted ==
  /\ IsStore(res) /\ res.err \in {"EntryTooLargeError", "CompressionError"}
  /\ ParseMeta(NodeGet(store[res.node], metaKey(res.key))).ok
  /\ getKeyUsage(usage, res.node, res.key) = 0
  /\ Settled

\* C31: when a store of K has failed after removing the old ledger usage of
\* K, the next successful store of K sets usage(owner, K) to exactly what
\* that store records, and the next delete of K sets it to 0 and leaves no
\* record of K: the drift does not outlive the next successful store or
\* delete of K.  Every successful store, after a drift or not, leaves the
\* entry it records.
C31_DriftHeals ==
  /\ [](Drifted
          => LET n == res.node
                 K == res.key
                 d == deletePluginData(store[n], usage, n, K)
             IN /\ \A in \in OrderStoreInputs :
                     LET r == setPluginData(store[n], usage, n, K, in[2])
                     IN (in[1] = K /\ r.err = "ok")
                          => (/\ getKeyUsage(r.us, n, K) = RecordedCost(K, in[2])
                              /\ WithoutEntry(r.us, n, K) = WithoutEntry(usage, n, K))
                /\ getKeyUsage(d.us, n, K) = 0
                /\ d.us = usage
                /\ DOMAIN KeyRecords(d.st, K) = {})
  /\ [][ (IsStore(res') /\ res'.err = "ok")
            => getKeyUsage(usage', res'.node, res'.key) = RecordedCost(res'.key, res'.val)
       ]_vars

\* C31 witness: a store has failed after the removal, the key still holds
\* its earlier value, and a store of the key from this state succeeds
C31_Witness ==
  /\ Drifted
  /\ getPluginData(store[res.node], res.key).err = "ok"
  /\ \E in \in OrderStoreInputs :
        /\ in[1] = res.key
        /\ setPluginData(store[res.node], usage, res.node, res.key, in[2]).err = "ok"

\* the two 32-bit hashes add up to 0 (mod 2^32)
Opposite(h1, h2) ==
  /\ (h1.lo + h2.lo) % 65536 = 0
  /\ (h1.hi + h2.hi + (h1.lo + h2.lo) \div 65536) % 65536 = 0

\* the two texts have the same length and differ in exactly one character
OneCharApart(x, y) ==
  /\ Len(x.cs) = Len(y.cs)
  /\ Cardinality({i \in 1..Len(x.cs) : x.cs[i] # y.cs[i]}) = 1

\* C32: the fingerprint is deterministic, verify(t, fingerprint(t)) is true
\* for every text t, and for two texts of equal length that differ in
\* exactly one character verify(t', fingerprint(t)) is false.
C32_ByteSensitive ==
  (res.op = "checksum" /\ OneCharApart(res.val.s, res.ret.other))
    => /\ res.ret.again = res.ret.sum
       /\ res.ret.verify1
       /\ ~res.ret.verify2

\* C32 as it holds: the fingerprint is deterministic, verify(t,
\* fingerprint(t)) is true, two texts of equal length that differ in exactly
\* one character have different 32-bit hashes, and verify(t',
\* fingerprint(t)) is false unless the two hashes are the negatives of each
\* other, which the absolute value maps to one fingerprint.
C32_ByteSensitiveSigned ==
  (res.op = "checksum" /\ OneCharApart(res.val.s, res.ret.other))
    => /\ res.ret.again = res.ret.sum
       /\ res.ret.verify1
       /\ res.ret.h1 # res.ret.h2
       /\ res.ret.verify2 <=> Opposite(res.ret.h1, res.ret.h2)

\* C32 witness: the last character of a text whose hash has wrapped around
\* was replaced, and the fingerprint of the text refuses the other text
C32_Witness ==
  /\ res.op = "checksum"
  /\ Len(res.val.s.cs) = 11 /\ res.ret.at = 11
  /\ res.ret.h1.hi >= 32768
  /\ res.ret.verify1 /\ ~res.ret.verify2

\* 'zsjpxag' (hash -1) and 'zsjpxai' (hash 1) have the fingerprint '1'
C32_Folded ==
  /\ res.op = "checksum"
  /\ res.val.s.cs = <<122, 115, 106, 112, 120, 97, 103>>
  /\ res.ret.other.cs = <<122, 115, 106, 112, 120, 97, 105>>
  /\ res.ret.h1 = [hi |-> 65535, lo |-> 65535] /\ res.ret.h2 = [hi |-> 0, lo |-> 1]
  /\ res.ret.sum = [hi |-> 0, lo |-> 1]
  /\ res.ret.verify2

\* the chunk indexes the metadata of key covers
Covered(st, key) ==
  LET metadata == ParseMeta(NodeGet(st, metaKey(key)))
  IN IF metadata.ok /\ metadata.chunked THEN 0..(metadata.totalChunks - 1) ELSE {}

\* C33: in every state reached by successful store and delete calls, every
\* chunk record present for a key K at index i is covered by the current
\* metadata of K (chunked: true and i < totalChunks), re-storing a chunked
\* key with a smaller payload or in the single-record layout included, and
\* after delete(K) no chunk record of K remains.
C33_NoOrphans ==
  /\ \A n \in Nodes, k \in Keys : ChunkIndexes(store[n], k) \subseteq Covered(store[n], k)
  /\ res.op = "delete" => ChunkIndexes(store[res.node], res.key) = {}

\* C33, the part that holds: a store adds its own chunk records and erases
\* none, a delete erases the chunk records its metadata covers and no other,
\* so the chunk records of a key are covered until the key is stored again
\* with fewer chunks.
C33_ChunksOnlyAdded ==
  [][ LET n == res'.node
          K == res'.key
          old == ChunkIndexes(store[n], K)
          new == ChunkIndexes(store'[n], K)
      IN /\ (res'.op = "store" /\ res'.err = "ok")
              => (/\ new = old \cup Covered(store'[n], K)
                  /\ (old \subseteq Covered(store'[n], K)) => (new = Covered(store'[n], K)))
         /\ (res'.op = "delete") => (new = old \ Covered(store[n], K))
    ]_vars

\* a chunked key was stored again in the single-record layout and then
\* deleted: its chunk records are on the node, with no metadata and no
\* ledger entry
C33_OrphansAfterDelete ==
  /\ res.op = "delete" /\ res.was.t = "meta" /\ ~res.was.chunked
  /\ ChunkIndexes(store[res.node], res.key) = {0, 1, 2}
  /\ metaKey(res.key) \notin DOMAIN store[res.node]
  /\ getKeyUsage(usage, res.node, res.key) = 0

\* the step belongs to a delete of res'.key: the directly-returning delete,
\* or either step of the suspending one
DeleteStep ==
  \/ IsDelete(res')
  \/ res'.op = "await" /\ \E t \in TaskIds : tasks'[t].op = "deleteAsync"

\* the step leaves the records, the ledger entry and the value of the
\* logical key other as they were
Untouched(n, other) ==
  /\ KeyRecords(store'[n], other) = KeyRecords(store[n], other)
  /\ getKeyUsage(usage', n, other) = getKeyUsage(usage, n, other)
  /\ getPluginData(store'[n], other) = getPluginData(store[n], other)

\* C34: for every key string K passed to delete, strings under the reserved
\* prefix included, delete(K) neither changes nor erases a data, chunk or
\* metadata record of a different logical key K' and does not change the
\* ledger entry of K': a managed K' stays managed and reads back its value.
C34_DeleteConfined ==
  [][ DeleteStep => \A other \in Keys \ {res'.key} : Untouched(res'.node, other) ]_vars

\* C34, the part that holds: the delete of a key that is not under the
\* reserved prefix leaves every other logical key as it was.
C34_DeleteConfinedCallerKey ==
  [][ (DeleteStep /\ ~Refused(res'.key))
        => \A other \in Keys \ {res'.key} : Untouched(res'.node, other) ]_vars

\* delete('__fpdu_meta_a') has erased the metadata record of 'a': the data
\* record and the ledger entry of 'a' are there, and retrieve('a') returns
\* the compressed text
C34_Unmanaged ==
  /\ IsDelete(res) /\ res.key = "__fpdu_meta_a"
  /\ "a" \in DOMAIN store["n1"]
  /\ metaKey("a") \notin DOMAIN store["n1"]
  /\ getKeyUsage(usage, "n1", "a") > 0
  /\ getPluginData(store["n1"], "a") = Returned("ok", Text(Payload(Text(Raw("Aa")))))

\* the step is a store of res'.key that raised, while the key held a value
\* that read back
FailedOverValue ==
  /\ IsStore(res') /\ res'.err # "ok" /\ ~Refused(res'.key)
  /\ Readable(store[res'.node], res'.key)

\* C35: if K holds a successfully stored value V1 and a later store(K, V2)
\* raises any error (the errors of the taxonomy, or a put refused by the
\* backing store part-way through a chunked write), retrieve(K) afterwards
\* still returns V1.
C35_FailedStoreKeeps ==
  [][ FailedOverValue
        => getPluginData(store'[res'.node], res'.key) = getPluginData(store[res'.node], res'.key)
    ]_vars

\* C35, the part that holds: the value is kept when the store raises before
\* its first put (TypeError, DataTooLargeError, QuotaExceededError), and
\* when the value held is in the single-record layout.
C35_FailedStoreKeepsSingle ==
  [][ (/\ FailedOverValue
       /\ \/ store'[res'.node] = store[res'.node]
          \/ ~ParseMeta(NodeGet(store[res'.node], metaKey(res'.key))).chunked)
        => getPluginData(store'[res'.node], res'.key) = getPluginData(store[res'.node], res'.key)
    ]_vars

\* a chunked store over a chunked value was stopped by the host part-way:
\* the metadata is that of the earlier value, its chunk records are pieces
\* of the new payload, and the key no longer reads back
C35_Overwritten ==
  /\ IsStore(res) /\ res.err = "CompressionError"
  /\ ParseMeta(NodeGet(store[res.node], metaKey(res.key))).totalChunks = 2
  /\ NodeGet(store[res.node], calculateChunkKey(res.key, 0)) = chunk(Payload(res.val))[1]
  /\ getPluginData(store[res.node], res.key).err = "DataCorruptedError"

\* a store over a single-record value was stopped by the host part-way and
\* the key reads back the earlier value
C35_KeptSingle ==
  /\ IsStore(res) /\ res.err = "CompressionError"
  /\ ~ParseMeta(NodeGet(store[res.node], metaKey(res.key))).chunked
  /\ getPluginData(store[res.node], res.key) = Returned("ok", Text(Raw("Aa")))
  /\ ChunkIndexes(store[res.node], res.key) # {}

\* the value the ledger entry of 'a' on n1 was recorded for
Held == {v \in YieldValues : getKeyUsage(usage, "n1", "a") = RecordedCost("a", v)}

\* a store of 'a' is in flight
InFlight == tasks["t1"].pc # "idle"

\* C36: a retrieve of K that runs while a suspending store of V2 to K is in
\* flight over a stored V1 returns V1 or V2, and a suspending retrieve that
\* overlaps such a store returns a whole stored value; neither raises
\* DataCorruptedError
C36_AtomicReads ==
  [][/\ (res'.op = "retrieve" /\ InFlight /\ TLen(NodeGet(store["n1"], metaKey("a"))) > 0) =>
          (res'.err = "ok" /\ res'.ret \in Held \cup {tasks["t1"].val})
     /\ (res'.op = "retrieveAsync" /\ tasks["t2"].pc = "decompress") =>
          (res'.err = "ok" /\ res'.ret \in YieldValues)]_vars

C36_Witness ==
  /\ res.op = "retrieve" /\ res.ret = Text(Raw("big2"))
  /\ tasks["t1"].pc = "compress" /\ tasks["t1"].val = Text(Raw("big3"))

\* a suspending retrieve called before the store resumed ends after it
C36_WitnessAsync ==
  /\ res.op = "retrieveAsync" /\ res.ret = Text(Raw("big2"))
  /\ tasks["t1"].pc = "idle"
  /\ getPluginData(store["n1"], "a").val = Text(Raw("big3"))

\* nothing of key is on the node or in the ledger of n1: no data record, no
\* metadata record, no ledger entry
Absent(key) ==
  /\ TLen(NodeGet(store["n1"], key)) = 0
  /\ TLen(NodeGet(store["n1"], metaKey(key))) = 0
  /\ getKeyUsage(usage, "n1", key) = 0

\* the metadata of key, if any, has its data record or every chunk record it
\* counts, and a ledger entry has metadata
Coherent(key) ==
  LET st == store["n1"]
      metadata == ParseMeta(NodeGet(st, metaKey(key)))
  IN /\ getKeyUsage(usage, "n1", key) > 0 => TLen(NodeGet(st, metaKey(key))) > 0
     /\ TLen(NodeGet(st, metaKey(key))) > 0 =>
          /\ metadata.ok
          /\ Covered(st, key) \subseteq ChunkIndexes(st, key)
          /\ ~metadata.chunked => key \in DOMAIN st
          /\ getPluginData(st, key).err = "ok"

\* C37: a delete of K that runs while a suspending store of V to K waits has
\* its whole effect before the store writes (K is then absent), the store
\* then completes as it does on a key that was deleted first (V readable,
\* all its records and its ledger entry in place), and once both have
\* completed there is no ledger entry without records and no metadata
\* whose chunk records were erased
C37_Serializable ==
  /\ []((tasks["t1"].pc = "compress" /\ res.op \in {"delete", "deleteAsync"}) => Absent("a"))
  /\ [][(res'.op = "storeAsync" /\ tasks["t1"].pc # "idle")
         => /\ res'.err = "ok"
            /\ Written(store'["n1"], "a", res'.val, TRUE)
            /\ getPluginData(store'["n1"], "a") = Returned("ok", res'.val)
            /\ getKeyUsage(usage', "n1", "a") = RecordedCost("a", res'.val)]_vars
  /\ []((\A t \in TaskIds : tasks[t].pc = "idle") => Coherent("a"))

\* a suspending delete has erased a chunked value while the store of another
\* chunked value waits for compressAsync
C37_Witness ==
  /\ tasks["t1"].pc = "compress" /\ tasks["t1"].val = Text(Raw("big3"))
  /\ res.op = "deleteAsync" /\ ParseMeta(res.was).ok /\ ParseMeta(res.was).chunked
  /\ tasks["t2"].pc = "idle"

\* the store that waited through a delete has completed
C37_StoredAfterDelete ==
  /\ res.op = "storeAsync" /\ res.err = "ok" /\ res.val = Text(Raw("big3"))
  /\ getKeyUsage(usage, "n1", "a") = RecordedCost("a", res.val)
  /\ ChunkIndexes(store["n1"], "a") = {0, 1, 2}

\* C38: after cleanupNode() on an owner the backing store of the owner holds
\* no record written by this layer - no bare data record, no metadata
\* record, no chunk record - and the ledger usage of the owner is 0
C38_NoResidue ==
  res.op = "cleanup"
    => /\ DOMAIN store[res.node] = {}
       /\ getNodeUsage(usage, res.node) = 0

\* C38, the part that holds: cleanupNode() erases the data record and the
\* metadata of every key getPluginDataKeys() lists, and the ledger has
\* nothing for the owner
C38_ListedKeysGone ==
  res.op = "cleanup"
    => /\ getPluginDataKeys(store[res.node]) = {}
       /\ getNodeUsage(usage, res.node) = 0
       /\ \A i \in 1..Len(res.val) : metaKey(res.val[i]) \notin DOMAIN store[res.node]

\* cleanupNode() has run on an owner whose only key was chunked: the key was
\* not listed, its chunk records and its metadata record are on the node and
\* the ledger has nothing for the owner
C38_Residue ==
  /\ res.op = "cleanup" /\ res.val = <<>>
  /\ getNodeUsage(usage, res.node) = 0
  /\ ChunkIndexes(store[res.node], "a") = {0, 1}
  /\ metaKey("a") \in DOMAIN store[res.node]
  /\ getPluginData(store[res.node], "a") = Returned("ok", Text(Raw("big2")))

\* the ledger entries of owner m
Row(u, m) == IF m \in DOMAIN u THEN u[m] ELSE <<>>

\* C39: a store, delete, migrate, optimize or cleanup issued through the
\* orchestrator of owner A changes no ledger entry of any other owner B and
\* no record in the backing store of B
C39_OwnersIsolated ==
  [][res'.op \in {"store", "delete", "migrate", "optimize", "cleanup"}
       => \A m \in Nodes \ {res'.node} :
            /\ store'[m] = store[m]
            /\ Row(usage', m) = Row(usage, m)]_vars

\* a cleanup of n1 has run while n2 holds a chunked value and its entry
C39_Witness ==
  /\ res.op = "cleanup" /\ res.node = "n1" /\ Len(res.val) > 0
  /\ getNodeUsage(usage, "n1") = 0
  /\ getNodeUsage(usage, "n2") = RecordedCost("a", Text(Raw("big2")))
  /\ ChunkIndexes(store["n2"], "a") = {0, 1}

\* the other owner is affected through the shared remaining() figure
C39_SharedRemaining ==
  /\ res.op = "store" /\ res.node = "n1" /\ res.err = "ok"
  /\ getNodeUsage(usage, "n2") > 0
  /\ getRemainingQuota(usage) = MAX_TOTAL_QUOTA - getNodeUsage(usage, "n1") - getNodeUsage(usage, "n2")

\* the step is a call that only reads, or a part of one
ReadStep ==
  \/ res'.op \in {"retrieve", "retrieveAsync", "keys", "canStore", "report", "stats"}
  \/ res'.op = "await" /\ tasks'["t1"].op = "retrieveAsync"

\* C40: retrieve (direct and suspending, on the passthrough, single-record
\* and chunked paths, returning or raising), the key list, canStore and the
\* quota report and stats leave the backing store and the ledger unchanged,
\* and two successive canStore(n) calls return the same answer
C40_ReadOnly ==
  [][/\ ReadStep => (store' = store /\ usage' = usage)
     /\ (res.op = "canStore" /\ res'.op = "canStore" /\ res'.val = res.val)
          => res'.ret = res.ret]_vars

\* canStore(3000000) has been granted twice in a row on a ledger with an
\* entry: a reservation would have refused the second call
C40_Witness ==
  /\ res.op = "canStore" /\ res.again /\ res.ret /\ res.val = Size(3000000)
  /\ getCurrentUsage(usage) > 0

\* a retrieve has raised on an overwritten record
C40_Raised ==
  /\ res.op \in {"retrieve", "retrieveAsync"} /\ res.err = "DataCorruptedError"
  /\ NodeGet(store["n1"], "a") = Garbage

\* a suspending retrieve has returned a chunked value
C40_ChunkedRead ==
  /\ res.op = "retrieveAsync" /\ res.ret = Text(Raw("big2"))
  /\ ChunkIndexes(store["n1"], "a") = {0, 1}

\* a retrieve has passed a legacy text through
C40_PassedThrough ==
  /\ res.op = "retrieve" /\ res.key = "a_1" /\ res.ret = Text(Raw("Aa"))

====
